---- MODULE Spec2Model ----
(***************************************************************************)
(* The x402 payment interceptor of src/app/utils/solana-x402-client.ts:    *)
(* the axios response interceptor installed by createSolanaX402Client and  *)
(* the payment construction of createSolanaPaymentHeader.                  *)
(*                                                                         *)
(* The per-call variables are functions of the caller requests, and the    *)
(* requests that exist are those Init creates (Calls).  A call's position  *)
(* (pc) is the await it is suspended at.  The interceptor is installed on  *)
(* the same client that it uses for the retry (line 116), so a retried     *)
(* request that is answered 402 enters the interceptor again; the nested   *)
(* invocation's result is returned (line 123) or re-rejected (line 126)    *)
(* unchanged by every enclosing invocation, so only the innermost          *)
(* invocation is kept.                                                     *)
(*                                                                         *)
(* The Welcome component of src/app/welcome/welcome.tsx: its React state,  *)
(* its event handlers and the timeouts they set.  A handler runs from the  *)
(* click to its first await in one step and is then a task suspended at    *)
(* that await; it reads the state through the closure of the render it was *)
(* created in, and writes it through the setters.  The component does not  *)
(* use the interceptor (it posts to a backend proxy with plain axios), so  *)
(* the two programs share no state.                                        *)
(***************************************************************************)
EXTENDS Integers, Sequences, FiniteSets, Bags, TLC

VARIABLES
    pc,             \* per call: the await the call is suspended at
    request,        \* per call: the request config last dispatched (error.config)
    response,       \* per call: the response last received (error.response / response)
    paymentReq,     \* per call: the requirement selected by the interceptor (line 86)
    transaction,    \* per call: the Transaction under construction (line 154)
    toAccountInfo,  \* per call: what getAccountInfo returned (line 216)
    outcome,        \* per call: how the caller's promise settled
    nreq,           \* per call: network requests issued so far
    n402,           \* per call: 402 responses received so far
    constructions,  \* per call: invocations of createSolanaPaymentHeader
    chainQueries,   \* per call: RPC queries issued on the connection
    signCalls,      \* per call: invocations of signer.signTransaction
    splTokenModule, \* module-level cache of the dynamic import (line 23)
    walletDeclines, \* the signer: TRUE when signTransaction would throw
    latestBlockhash, \* the chain: the blockhash of its latest block
    receipt,        \* per call: what the caller got from decodeSolanaPaymentResponse
    elapsed,        \* per call: seconds since the 402 response came in
    selectedNetwork,    \* useState, line 110
    client,             \* useState, line 113
    account,            \* useState, line 114
    loading,            \* useState, line 115
    error,              \* useState, line 116
    weatherData,        \* useState, line 117
    paymentInfo,        \* useState, line 118
    exportAddress,      \* useState, line 119
    exportedKey,        \* useState, line 120
    metamaskAccount,    \* useState, line 123
    metamaskLoading,    \* useState, line 124
    metamaskError,      \* useState, line 125
    permitSignature,    \* useState, line 126
    permitParams,       \* useState, line 127
    backendEthBalance,  \* useState, line 133
    backendUsdcBalance, \* useState, line 134
    balanceLoading,     \* useState, line 135
    mounted,            \* the component is rendered (no render has thrown)
    tasks,              \* the handler invocations suspended at an await (a bag)
    timers,             \* the timeouts set and not yet fired (a bag)
    ethereum,           \* window.ethereum exists (lines 50-56)
    walletChain,        \* MetaMask: the chain the wallet is on
    usdcNonce           \* the chain: nonces(owner), the permits executed so far (at most MaxNonce)

clientVars == <<pc, request, response, paymentReq, transaction, toAccountInfo, outcome, nreq,
                n402, constructions, chainQueries, signCalls, splTokenModule, walletDeclines,
                latestBlockhash, receipt, elapsed>>

stateVars == <<selectedNetwork, client, account, loading, error, weatherData, paymentInfo,
               exportAddress, exportedKey, metamaskAccount, metamaskLoading, metamaskError,
               permitSignature, permitParams, backendEthBalance, backendUsdcBalance,
               balanceLoading>>

welcomeVars == <<stateVars, mounted, tasks, timers, ethereum, walletChain, usdcNonce>>

vars == <<clientVars, welcomeVars>>

----------------------------------------------------------------------------
(* Bounds *)

MaxReq == 3
MaxAccepts == 2
MaxTasks == 2
MaxTimers == 2
MaxNonce == 1

\* The caller requests of a behaviour.
Calls == DOMAIN pc

\* A counter that stops counting at MaxReq (the code has no counter at all).
Inc(n) == IF n < MaxReq THEN n + 1 ELSE n

----------------------------------------------------------------------------
(* Values *)

Undefined == "<undefined>"
SignerKey == "SIGNER"
\* The strings new PublicKey(...) accepts (lines 145, 195); it throws on any other.
ValidAddresses == {"ADDR", "MINT", SignerKey}
\* The cluster the client's connection is on: rpcUrl's default (line 68), the
\* network the client says the server should name (line 96).
AdapterNetwork == "solana-devnet"
Blockhashes == {"bh1", "bh2"}

\* The maxTimeoutSeconds (line 40) of the requirements the servers send.
TimeoutSeconds == 2

\* PaymentRequirements (lines 32-46), the fields the client reads, and
\* maxTimeoutSeconds and extra.feePayer, which it does not; a requirement
\* made here names no fee payer.
PaymentRequirements(scheme, network, maxAmountRequired, payTo, asset) ==
    [scheme |-> scheme, network |-> network, maxAmountRequired |-> maxAmountRequired,
     payTo |-> payTo, asset |-> asset, maxTimeoutSeconds |-> TimeoutSeconds,
     extra |-> [feePayer |-> Undefined]]

NoRequirement == PaymentRequirements(Undefined, Undefined, Undefined, Undefined, Undefined)

\* Values of maxAmountRequired other than a small amount: digits followed by
\* something else, no digit at all, and 2^53 + 1.
OddAmounts == {"12abc", "abc", "9007199254740993"}

\* The entries a server may put first in accepts.
HeadRequirements ==
    {PaymentRequirements("exact", n, "1000", "ADDR", a) :
        n \in {"solana-devnet", "solana", "base-sepolia"}, a \in {"", "MINT"}}
    \cup {PaymentRequirements("exact", "solana-devnet", "1000", "not-base58", ""),
          PaymentRequirements("exact", "solana-devnet", "1000", "ADDR", "USDC"),
          PaymentRequirements("exact", "solana-devnet", "1000", Undefined, ""),
          PaymentRequirements("exact", "solana-devnet", Undefined, "ADDR", ""),
          PaymentRequirements("exact", Undefined, "1000", "ADDR", ""),
          PaymentRequirements(Undefined, "solana-devnet", "1000", "ADDR", "")}
    \cup {PaymentRequirements("exact", "solana-devnet", a, "ADDR", "") : a \in OddAmounts}
    \cup {PaymentRequirements("exact", "solana-devnet", a, "ADDR", "MINT") :
              a \in OddAmounts}
    \cup {PaymentRequirements("exact", "solana-devnet", "1000", "ADDR", a) :
              a \in {"SOL", Undefined}}
    \cup {[PaymentRequirements("exact", "solana-devnet", "1000", "ADDR", a)
               EXCEPT !.extra.feePayer = "ADDR"] : a \in {"", "MINT"}}

\* The entries a server may put after the first one.
TailRequirements ==
    {PaymentRequirements("exact", "solana-devnet", "1000", "ADDR", "SOL"),
     PaymentRequirements("exact", "base-sepolia", "1000", "ADDR", "")}

RECURSIVE AcceptsLists(_)
AcceptsLists(n) ==
    IF n = 0 THEN {<< >>}
    ELSE IF n = 1 THEN {<<r>> : r \in HeadRequirements}
    ELSE {Append(l, r) : l \in AcceptsLists(n - 1), r \in TailRequirements}

\* X402Response (lines 49-52): the data of a 402 response.  shape "null" is a
\* body that is null or undefined, "noaccepts" one without an accepts member.
X402Response(shape, accepts) == [shape |-> shape, accepts |-> accepts]

NoData == X402Response("none", << >>)

Bodies ==
    {X402Response("null", << >>), X402Response("noaccepts", << >>)}
    \cup {X402Response("accepts", l) : l \in UNION {AcceptsLists(n) : n \in 0..MaxAccepts}}

AxiosResponse(status, data) ==
    [status |-> status, data |-> data, headers |-> [xPaymentResponse |-> [absent |-> TRUE]]]

NoResponse == AxiosResponse(0, NoData)

----------------------------------------------------------------------------
(* Library functions, as the code uses them *)

\* String.prototype.includes (line 92).
includes(s, sub) ==
    \E i \in 1..(Len(s) - Len(sub) + 1) : SubSeq(s, i, i + Len(sub) - 1) = sub

\* The value of a character as a digit, up to radix 16.
Digit ==
    [d \in {"0", "1", "2", "3", "4", "5", "6", "7", "8", "9",
            "a", "b", "c", "d", "e", "f", "A", "B", "C", "D", "E", "F"} |->
        CASE d = "0" -> 0 [] d = "1" -> 1 [] d = "2" -> 2 [] d = "3" -> 3
          [] d = "4" -> 4 [] d = "5" -> 5 [] d = "6" -> 6 [] d = "7" -> 7
          [] d = "8" -> 8 [] d = "9" -> 9
          [] d \in {"a", "A"} -> 10 [] d \in {"b", "B"} -> 11
          [] d \in {"c", "C"} -> 12 [] d \in {"d", "D"} -> 13
          [] d \in {"e", "E"} -> 14 [] d \in {"f", "F"} -> 15]

\* Whether the character of s at i is a digit of the radix.
IsDigitAt(s, i, radix) ==
    /\ i <= Len(s)
    /\ SubSeq(s, i, i) \in DOMAIN Digit
    /\ Digit[SubSeq(s, i, i)] < radix

\* A magnitude is the sequence of its binary digits, least significant first.
\* radix * bits + carry, for a magnitude bits.
RECURSIVE MulAdd(_, _, _)
MulAdd(bits, radix, carry) ==
    IF bits = << >>
    THEN IF carry = 0 THEN << >> ELSE <<carry % 2>> \o MulAdd(<< >>, radix, carry \div 2)
    ELSE LET t == radix * Head(bits) + carry
         IN  <<t % 2>> \o MulAdd(Tail(bits), radix, t \div 2)

\* The magnitude without the zeros above its most significant one.
RECURSIVE Normal(_)
Normal(bits) ==
    IF bits # << >> /\ bits[Len(bits)] = 0 THEN Normal(SubSeq(bits, 1, Len(bits) - 1))
    ELSE bits

\* The binary digits a Number keeps of an integer: those of an IEEE 754 double.
MantissaBits == 53

\* The integer nearest to bits that a Number can hold, ties to the even one:
\* what parseInt returns of the digits it has read.
ToFloat64(bits) ==
    IF Len(bits) <= MantissaBits THEN bits
    ELSE LET n == Len(bits) - MantissaBits
             kept == SubSeq(bits, n + 1, Len(bits))
             sticky == \E i \in 1..(n - 1) : bits[i] = 1
             up == bits[n] = 1 /\ (sticky \/ kept[1] = 1)
         IN  [i \in 1..n |-> 0] \o (IF up THEN Normal(MulAdd(kept, 1, 1)) ELSE kept)

\* A JavaScript number that is an integer, or NaN.
Number(negative, bits) == [nan |-> FALSE, negative |-> negative, bits |-> ToFloat64(bits)]
NaN == [nan |-> TRUE, negative |-> FALSE, bits |-> << >>]

RECURSIVE DigitsValue(_, _, _, _)
\* The value of the longest run of digits of s that starts at i, given the
\* value acc of the digits before i.
DigitsValue(s, i, radix, acc) ==
    IF IsDigitAt(s, i, radix)
    THEN DigitsValue(s, i + 1, radix, Normal(MulAdd(acc, radix, Digit[SubSeq(s, i, i)])))
    ELSE acc

RECURSIVE SkipSpaces(_, _)
SkipSpaces(s, i) ==
    IF i <= Len(s) /\ SubSeq(s, i, i) \in {" ", "\t", "\n"}
    THEN SkipSpaces(s, i + 1)
    ELSE i

\* parseInt(string) with no radix given (line 148): leading white space, an
\* optional sign, an optional 0x or 0X that makes the radix 16, then the
\* longest run of digits; NaN when there is no digit; what follows the digits
\* is ignored.  (Of an absent member, parseInt(undefined) is NaN.)
parseInt(s) ==
    IF s = Undefined THEN NaN
    ELSE LET i == SkipSpaces(s, 1)
             signed == i <= Len(s) /\ SubSeq(s, i, i) \in {"-", "+"}
             j == IF signed THEN i + 1 ELSE i
             hex == j + 1 <= Len(s) /\ SubSeq(s, j, j + 1) \in {"0x", "0X"}
             k == IF hex THEN j + 2 ELSE j
             radix == IF hex THEN 16 ELSE 10
         IN  IF ~IsDigitAt(s, k, radix) THEN NaN
             ELSE Number(signed /\ SubSeq(s, i, i) = "-", DigitsValue(s, k, radix, << >>))

\* const amount (line 148), for each value of maxAmountRequired a server of
\* this model sends.
amountOf == [s \in {Undefined, "1000"} \cup OddAmounts |-> parseInt(s)]

\* btoa (lines 292, 391): the encoded value remembers what it encodes, and
\* is a different value from it.
btoa(x) == [base64 |-> x]

\* The members of the objects of this module that hold a string or are
\* undefined; every other member holds a number or an object.
StringMembers == {"scheme", "network", "asset", "payTo", "maxAmountRequired"}

\* JSON.stringify of an object (line 391): the text of its members, those
\* whose value is undefined left out.
JSONstringify(x) ==
    [json |-> [k \in {m \in DOMAIN x : m \notin StringMembers \/ x[m] # Undefined} |-> x[k]]]

\* A header value that is no base64 text, and one that is base64 of a text
\* that is no JSON.
NotBase64 == [text |-> "%%%"]
NotJSON == btoa([text |-> "payment settled"])

\* What a call that may throw gives: the value returned, or thrown = TRUE.
Returned(v) == [thrown |-> FALSE, value |-> v]
Thrown == [thrown |-> TRUE, value |-> [text |-> ""]]

\* atob (line 403): the text a base64 text encodes; it throws on any other.
atob(x) == IF "base64" \in DOMAIN x THEN Returned(x.base64) ELSE Thrown

\* JSON.parse (line 403): the object a JSON text denotes; it throws on any other.
JSONparse(x) == IF "json" \in DOMAIN x THEN Returned(x.json) ELSE Thrown

Null == [null |-> TRUE]

\* decodeSolanaPaymentResponse with no try around the decoding.
decodeSolanaPaymentResponse_NoCatch(header) ==
    LET decoded == atob(header)
    IN  IF decoded.thrown THEN Thrown ELSE JSONparse(decoded.value)

\* decodeSolanaPaymentResponse (lines 401-409).
decodeSolanaPaymentResponse(header) ==
    LET decoded == atob(header)
        parsed == IF decoded.thrown THEN Thrown ELSE JSONparse(decoded.value)
    IN  IF parsed.thrown THEN Returned(Null) ELSE parsed

\* The settlement receipt a server reports, and the values a server puts in
\* the x-payment-response header of a response (absent included).
Receipt == [success |-> TRUE, txHash |-> "5xSig"]
ReceiptHeaders == {[absent |-> TRUE], btoa(JSONstringify(Receipt)), NotBase64, NotJSON}

\* The caller has not decoded the header of the response.
NotDecoded == Returned([undecoded |-> TRUE])

----------------------------------------------------------------------------
(* Errors and promise results *)

\* The AxiosError axios rejects with for a response outside 2xx, or for no
\* response at all (response = NoResponse).
AxiosError(resp) == [name |-> "AxiosError", response |-> resp, network |-> ""]

\* new Error(...) and the errors thrown by the SDKs: they carry no response.
Error(name, network) == [name |-> name, response |-> NoResponse, network |-> network]

NoError == Error("none", "")

Pending == [settled |-> "pending", value |-> NoResponse, error |-> NoError]
Resolved(resp) == [settled |-> "resolved", value |-> resp, error |-> NoError]
Rejected(err) == [settled |-> "rejected", value |-> NoResponse, error |-> err]

----------------------------------------------------------------------------
(* Transactions *)

Instruction(program, source, destination, owner, mint, amount) ==
    [program |-> program, source |-> source, destination |-> destination,
     owner |-> owner, mint |-> mint, amount |-> amount]

\* new Transaction({feePayer, blockhash, lastValidBlockHeight}) (lines 154-158).
Transaction(feePayer, blockhash) ==
    [feePayer |-> feePayer, recentBlockhash |-> blockhash, instructions |-> << >>,
     signed |-> FALSE]

NoTransaction == Transaction(Undefined, Undefined)

\* A fee payer taken from the requirement's hint when it has one.
feePayer_Hinted(signer, req) ==
    IF req.extra.feePayer # Undefined THEN req.extra.feePayer ELSE signer

\* feePayer: signer.publicKey (line 155).
feePayer(signer, req) == signer

\* transaction.add(...) putting the instruction before those already there.
add_Prepend(tx, ix) == [tx EXCEPT !.instructions = <<ix>> \o @]

\* transaction.add(...) (lines 164, 223, 238).
add(tx, ix) == [tx EXCEPT !.instructions = Append(@, ix)]

\* getAssociatedTokenAddress (lines 198-213): the account derived from mint and owner.
getAssociatedTokenAddress(mint, owner) == "ATA:" \o mint \o ":" \o owner

\* BigInt(amount), which SystemProgram.transfer and createTransferInstruction
\* apply to the amount they are given (lines 168, 243): it throws on NaN.
BigIntThrows(n) == n.nan

\* SystemProgram.transfer (lines 165-169).
SystemTransfer(fromPubkey, toPubkey, lamports) ==
    Instruction("System.transfer", fromPubkey, toPubkey, fromPubkey, "", lamports)

\* createAssociatedTokenAccountInstruction (lines 224-231): payer, account, owner, mint.
createAssociatedTokenAccountInstruction(payer, ata, owner, mint) ==
    Instruction("AssociatedToken.create", payer, ata, owner, mint, Number(FALSE, << >>))

\* createTransferInstruction (lines 239-246).
createTransferInstruction(source, destination, owner, amount) ==
    Instruction("Token.transfer", source, destination, owner, "", amount)

----------------------------------------------------------------------------
(* createSolanaPaymentHeader, lines 278-395: serialize and wrap *)

\* const EXPERIMENTAL_MODE (line 279).
EXPERIMENTAL_MODE == "MESSAGE_ONLY"

\* const USE_EMPTY_TRANSACTION (line 177).
USE_EMPTY_TRANSACTION == FALSE

\* transaction.compileMessage().serialize() (lines 289-290): the message of
\* the transaction, which holds no signature.
SerializeMessage(tx) ==
    [kind |-> "message", feePayer |-> tx.feePayer, recentBlockhash |-> tx.recentBlockhash,
     instructions |-> tx.instructions, signed |-> FALSE]

\* signer.signTransaction(tx) when the wallet approves (lines 303, 312).
signTransaction(tx) == [tx EXCEPT !.signed = TRUE]

\* signedTransaction.serialize({...}) (lines 304-307, 321-324).
SerializeTransaction(tx) ==
    [kind |-> "transaction", feePayer |-> tx.feePayer, recentBlockhash |-> tx.recentBlockhash,
     instructions |-> tx.instructions, signed |-> tx.signed]

\* Whether the mode in force asks the wallet to sign (lines 286, 295, 309).
ModeSigns(mode) == mode # "MESSAGE_ONLY"

\* The transaction handed to the wallet in a signing mode (lines 298-303, 312).
ToSign(mode, tx) ==
    IF mode = "EMPTY_TX" THEN Transaction(tx.feePayer, tx.recentBlockhash) ELSE tx

\* base64Transaction (lines 286-342) once signing, if any, has succeeded.
Base64Transaction(mode, tx) ==
    IF mode = "MESSAGE_ONLY" THEN btoa(SerializeMessage(tx))
    ELSE btoa(SerializeTransaction(signTransaction(ToSign(mode, tx))))

\* paymentPayload2 (lines 358-365).
paymentPayload2(req, base64Transaction) ==
    [x402Version |-> 1, scheme |-> req.scheme, network |-> req.network,
     payload |-> [transaction |-> base64Transaction]]

\* const paymentPayload = paymentPayload2 (line 374); paymentHeader (line 391).
PaymentHeader(req, base64Transaction) ==
    btoa(JSONstringify(paymentPayload2(req, base64Transaction)))

NoHeader == [absent |-> TRUE]

\* An AxiosRequestConfig: what identifies the request, its body, the two
\* headers the interceptor writes (lines 111-112), and a header of the
\* caller's own, which a config made here does not have.
RequestConfig(method, data, xPayment, expose) ==
    [method |-> method, url |-> "/item3", data |-> data,
     headers |-> [XPayment |-> xPayment, AccessControlExposeHeaders |-> expose,
                  Authorization |-> Undefined]]

\* The requests a caller issues on the client: one without a body, and one
\* with a body and a header of the caller's.
OriginalRequests ==
    {RequestConfig("GET", Undefined, NoHeader, FALSE),
     [RequestConfig("POST", "{\"item\":3}", NoHeader, FALSE)
         EXCEPT !.headers.Authorization = "Bearer token"]}

----------------------------------------------------------------------------
(* The interceptor's selection of a requirement, lines 82-98 *)

\* x402Response.accepts?.[0] (line 86).
FirstAccepts(data) ==
    IF data.shape = "accepts" /\ Len(data.accepts) >= 1 THEN data.accepts[1]
    ELSE NoRequirement

\* The check of line 92.
IsSolanaNetwork(network) == includes(network, "solana")

\* What lines 82-98 do with the data of a 402 response: the error the call is
\* rejected with, or "none" and the requirement to pay.
SelectRequirement(data) ==
    IF data.shape = "null"
    THEN [error |-> Error("TypeError", ""), req |-> NoRequirement]
    ELSE LET req == FirstAccepts(data) IN
         IF req = NoRequirement
         THEN [error |-> Error("NoPaymentOptions", ""), req |-> NoRequirement]
         ELSE IF req.network = Undefined
         THEN [error |-> Error("TypeError", ""), req |-> req]
         ELSE IF ~IsSolanaNetwork(req.network)
         THEN [error |-> Error("UnsupportedNetwork", req.network), req |-> req]
         ELSE [error |-> NoError, req |-> req]

\* The test of line 161 with every asset taken for the native currency.
IsNative_Always(asset) == TRUE

\* The test of line 161.
IsNative(asset) == asset = "SOL" \/ asset = "" \/ asset = Undefined

----------------------------------------------------------------------------
(* The Welcome component, src/app/welcome/welcome.tsx: values *)

\* null where the state holds a string (account, error, ...); where it holds
\* an object (client, permitSignature) null is Null.
NullString == "<null>"

\* Lines 15-36, with the members the handlers read.
NETWORKS ==
    [mainnet |-> [key |-> "mainnet", chainIdHex |-> "0x2105",
                  usdcAddress |-> "0x833589fCD6eDb6E08f4c7C32D4f71b54bdA02913",
                  usdcName |-> "USD Coin", usdcVersion |-> "1"],
     sepolia |-> [key |-> "sepolia", chainIdHex |-> "0x14a34",
                  usdcAddress |-> "0x036CbD53842c5426634e7929541eC2318f3dCF7e",
                  usdcName |-> "USDC", usdcVersion |-> "2"]]

NetworkKeys == DOMAIN NETWORKS

\* The chains the wallet can be on: the two of NETWORKS and another one.
WalletChains == {"0x2105", "0x14a34", "0x1"}

\* The addresses POST /api/cdp/accounts/import answers with (line 98).
BackendAddresses == {"0xB1", "0xB2"}

\* The accounts eth_requestAccounts answers with (line 336).
MetaMaskAccounts == {"0xM1"}

\* What the user can type into the amount and expiry inputs (lines 651, 666);
\* the deadline is in seconds after the page was loaded.
PermitValues == {"1000000", "2000000"}
Deadlines == {3600}

\* What the user can type into the export input (line 762).
ExportAddresses == {"", "0xB1"}

\* parseInt of the amounts (lines 448, 479).
permitValueOf == [v \in PermitValues |-> parseInt(v)]

\* e.message of a failed axios request and of a request the wallet or its
\* user refused: what the catch blocks show (the texts after || are shown
\* only for an error without a message).
RequestFailed == "Request failed with status code 500"
UserRejected == "User rejected the request."

\* new X402Client() after initialize() returned address (lines 91-107).
X402Client(address) == [address |-> address, httpClient |-> TRUE]

\* getDomainSeparator(...).domain, lines 58-76.
getDomainSeparator(contractAddress, chainId, tokenName, tokenVersion) ==
    [name |-> tokenName, version |-> tokenVersion, chainId |-> chainId,
     verifyingContract |-> contractAddress]

\* The answer of eth_signTypedData_v4 (lines 454-462): the signature of the
\* typed data by the account.
signTypedData(signer, domain, message) ==
    [signedBy |-> signer, domain |-> domain, message |-> message]

\* signature.slice(from, to), lines 465-467.
slice(signature, from, to) == [of |-> signature, from |-> from, to |-> to]

\* The body of POST /execute-permit, lines 277-286.
ExecutePermitBody(sig, selected) ==
    [owner |-> sig.owner, spender |-> sig.spender, value |-> sig.value,
     deadline |-> sig.deadline, v |-> sig.v, r |-> sig.r, s |-> sig.s, network |-> selected]

\* permitResponse.data.txHash (line 293): the transaction the backend sent
\* for the body it was posted, named by that body.
TxHash(body) == [transaction |-> body]

\* The permitSignature set by executePermitSignature, lines 469-480.
PermitSignature(owner, spender, params, nonce, signature) ==
    [owner |-> owner, spender |-> spender, value |-> params.value, nonce |-> nonce,
     deadline |-> params.deadline, signature |-> signature,
     r |-> slice(signature, 0, 66), s |-> slice(signature, 66, 130),
     v |-> slice(signature, 130, 132),
     message |-> [text |-> "permit created", account |-> spender,
                  value |-> permitValueOf[params.value]]]

\* { ...prev, permitTxHash, message } of lines 291-295; the spread of null has
\* no members.
WithTxHash(prev, txHash) ==
    LET members == (IF prev = Null THEN {} ELSE DOMAIN prev) \cup {"permitTxHash", "message"}
    IN  [m \in members |->
            IF m = "permitTxHash" THEN txHash
            ELSE IF m = "message" THEN [text |-> "permit established", txHash |-> txHash]
            ELSE prev[m]]

\* The members the result panel dereferences, lines 736-744.
PanelMembers == {"owner", "spender", "value", "nonce", "deadline", "signature", "r", "s", "v"}

\* The render throws (lines 736-743: permitSignature.owner.slice of undefined)
\* when the permit panel is shown for a signature without these members.
RenderThrows(acc, sig) ==
    acc # NullString /\ sig # Null /\ ~(PanelMembers \subseteq DOMAIN sig)

\* The values of the React state after the first render, lines 110-135.
useState ==
    /\ selectedNetwork = "mainnet"
    /\ client = Null
    /\ account = NullString
    /\ loading = FALSE
    /\ error = NullString
    /\ weatherData = NullString
    /\ paymentInfo = NullString
    /\ exportAddress = ""
    /\ exportedKey = NullString
    /\ metamaskAccount = NullString
    /\ metamaskLoading = FALSE
    /\ metamaskError = NullString
    /\ permitSignature = Null
    /\ permitParams = [value |-> "1000000", deadline |-> 3600]
    /\ backendEthBalance = "0"
    /\ backendUsdcBalance = "0"
    /\ balanceLoading = FALSE

\* The page is not open: the component is not mounted and nothing runs.
NotRendered ==
    /\ useState
    /\ mounted = FALSE
    /\ tasks = EmptyBag
    /\ timers = EmptyBag
    /\ ethereum = FALSE
    /\ walletChain = "0x1"
    /\ usdcNonce = 0

----------------------------------------------------------------------------
(* The state machine *)

SuccessStatuses == {200}
ErrorResponses == {AxiosResponse(500, NoData), NoResponse}
ResourceData == X402Response("resource", << >>)

\* The state after createSolanaX402Client (lines 65-72, 131), with the caller
\* requests in calls not yet issued.
InitWith(calls) ==
    /\ pc = [c \in calls |-> "Idle"]
    /\ request \in [calls -> OriginalRequests]
    /\ response = [c \in calls |-> NoResponse]
    /\ paymentReq = [c \in calls |-> NoRequirement]
    /\ transaction = [c \in calls |-> NoTransaction]
    /\ toAccountInfo = [c \in calls |-> "unset"]
    /\ outcome = [c \in calls |-> Pending]
    /\ nreq = [c \in calls |-> 0]
    /\ n402 = [c \in calls |-> 0]
    /\ constructions = [c \in calls |-> 0]
    /\ chainQueries = [c \in calls |-> 0]
    /\ signCalls = [c \in calls |-> 0]
    /\ splTokenModule = FALSE
    /\ walletDeclines \in BOOLEAN
    /\ latestBlockhash = "bh1"
    /\ receipt = [c \in calls |-> NotDecoded]
    /\ elapsed = [c \in calls |-> 0]

\* One caller request.
SingleCall == {"call"}

Init == InitWith(SingleCall) /\ NotRendered

\* The positions inside createSolanaPaymentHeader.
InConstructionAt(position) ==
    position \in {"getLatestBlockhash", "import", "getSPLToken", "getAccountInfo"}

\* The caller's promise settles: the interceptor chain returns or rejects.
Settle(c, result) ==
    /\ pc' = [pc EXCEPT ![c] = "Done"]
    /\ outcome' = [outcome EXCEPT ![c] = result]

\* Catch with the error swallowed: the 402 response is returned instead.
Catch_Swallows(c, paymentError) == Settle(c, Resolved(response[c]))

\* Lines 124-127: what createSolanaPaymentHeader or the retried request threw
\* is rejected as it is.
Catch(c, paymentError) == Settle(c, Rejected(paymentError))

\* Retry that issues the request a second time without awaiting the first.
Retry_Twice(c, paymentHeader) ==
    /\ request' = [request EXCEPT ![c].headers.XPayment = paymentHeader,
                                  ![c].headers.AccessControlExposeHeaders = TRUE]
    /\ nreq' = [nreq EXCEPT ![c] = Inc(Inc(@))]
    /\ pc' = [pc EXCEPT ![c] = "AwaitingResponse"]
    /\ UNCHANGED outcome

\* Retry with a request made anew for the URL instead of error.config.
Retry_NewRequest(c, paymentHeader) ==
    /\ request' = [request EXCEPT ![c] =
                      RequestConfig("GET", Undefined, paymentHeader, TRUE)]
    /\ nreq' = [nreq EXCEPT ![c] = Inc(@)]
    /\ pc' = [pc EXCEPT ![c] = "AwaitingResponse"]
    /\ UNCHANGED outcome

\* Retry that gives the request a new headers object with the two headers.
Retry_NewHeaders(c, paymentHeader) ==
    /\ request' = [request EXCEPT ![c].headers =
                      RequestConfig("GET", Undefined, paymentHeader, TRUE).headers]
    /\ nreq' = [nreq EXCEPT ![c] = Inc(@)]
    /\ pc' = [pc EXCEPT ![c] = "AwaitingResponse"]
    /\ UNCHANGED outcome

\* Lines 109-116: the two headers are written into the headers of the config
\* of the failed request, and the request is issued again on the same client.
Retry(c, paymentHeader) ==
    /\ request' = [request EXCEPT ![c].headers.XPayment = paymentHeader,
                                  ![c].headers.AccessControlExposeHeaders = TRUE]
    /\ nreq' = [nreq EXCEPT ![c] = Inc(@)]
    /\ pc' = [pc EXCEPT ![c] = "AwaitingResponse"]
    /\ UNCHANGED outcome

\* Lines 258-395 and 108-127: with the instructions in place, serialize in
\* the mode in force (asking the wallet only in a signing mode), wrap, retry.
Finish(c, tx) ==
    /\ transaction' = [transaction EXCEPT ![c] = tx]
    /\ IF ModeSigns(EXPERIMENTAL_MODE)
       THEN /\ signCalls' = [signCalls EXCEPT ![c] = Inc(@)]
            /\ IF walletDeclines
               THEN /\ Catch(c, Error("WalletSignTransactionError", ""))
                    /\ UNCHANGED <<request, nreq>>
               ELSE Retry(c, PaymentHeader(paymentReq[c],
                                           Base64Transaction(EXPERIMENTAL_MODE, tx)))
       ELSE /\ UNCHANGED signCalls
            /\ Retry(c, PaymentHeader(paymentReq[c],
                                      Base64Transaction(EXPERIMENTAL_MODE, tx)))

\* The caller issues a request on the client.
Dispatch(c) ==
    /\ pc[c] = "Idle"
    /\ pc' = [pc EXCEPT ![c] = "AwaitingResponse"]
    /\ nreq' = [nreq EXCEPT ![c] = Inc(@)]
    /\ UNCHANGED welcomeVars
    /\ UNCHANGED <<request, response, paymentReq, transaction, toAccountInfo, outcome, n402,
                   constructions, chainQueries, signCalls, splTokenModule, walletDeclines,
                   latestBlockhash, receipt, elapsed>>

\* Line 75: a 2xx response is returned as it is.  (To the retried request,
\* lines 116-123: its x-payment-response header is logged, nothing more.)
ResponseFulfilled(c) ==
    /\ pc[c] = "AwaitingResponse"
    /\ \E status \in SuccessStatuses, header \in ReceiptHeaders :
          LET resp == [AxiosResponse(status, ResourceData)
                          EXCEPT !.headers.xPaymentResponse = header] IN
          /\ response' = [response EXCEPT ![c] = resp]
          /\ Settle(c, Resolved(resp))
    /\ UNCHANGED welcomeVars
    /\ UNCHANGED <<request, paymentReq, transaction, toAccountInfo, nreq, n402,
                   constructions, chainQueries, signCalls, splTokenModule, walletDeclines,
                   latestBlockhash, receipt, elapsed>>

\* ResponseRejected without the status test of line 78: the error falls
\* through to the selection of a requirement.
ResponseRejected_NoStatusCheck(c) ==
    /\ pc[c] = "AwaitingResponse"
    /\ \E resp \in ErrorResponses :
          /\ response' = [response EXCEPT ![c] = resp]
          /\ Settle(c, Rejected(IF resp = NoResponse THEN Error("TypeError", "")
                                ELSE SelectRequirement(resp.data).error))
    /\ UNCHANGED welcomeVars
    /\ UNCHANGED <<request, paymentReq, transaction, toAccountInfo, nreq, n402,
                   constructions, chainQueries, signCalls, splTokenModule, walletDeclines,
                   latestBlockhash, receipt, elapsed>>

\* Lines 78-80: an error that is no 402 response is rejected as it is.
ResponseRejected(c) ==
    /\ pc[c] = "AwaitingResponse"
    /\ \E resp \in ErrorResponses :
          /\ response' = [response EXCEPT ![c] = resp]
          /\ Settle(c, Rejected(AxiosError(resp)))
    /\ UNCHANGED welcomeVars
    /\ UNCHANGED <<request, paymentReq, transaction, toAccountInfo, nreq, n402,
                   constructions, chainQueries, signCalls, splTokenModule, walletDeclines,
                   latestBlockhash, receipt, elapsed>>

\* Lines 82-106 and 144-151: a 402 response whose data is one of bodies;
\* select the requirement, and start createSolanaPaymentHeader up to its
\* first await.
Response402In(c, bodies) ==
    /\ pc[c] = "AwaitingResponse"
    /\ \E data \in bodies :
          LET resp == AxiosResponse(402, data)
              sel == SelectRequirement(data)
          IN  /\ response' = [response EXCEPT ![c] = resp]
              /\ n402' = [n402 EXCEPT ![c] = Inc(@)]
              /\ paymentReq' = [paymentReq EXCEPT ![c] = sel.req]
              /\ toAccountInfo' = [toAccountInfo EXCEPT ![c] = "unset"]
              /\ elapsed' = [elapsed EXCEPT ![c] = 0]
              /\ IF sel.error # NoError
                 THEN /\ Settle(c, Rejected(sel.error))
                      /\ UNCHANGED <<constructions, chainQueries>>
                 ELSE /\ constructions' = [constructions EXCEPT ![c] = Inc(@)]
                      /\ IF sel.req.payTo \notin ValidAddresses
                         THEN /\ Catch(c, Error("InvalidPublicKey", ""))
                              /\ UNCHANGED chainQueries
                         ELSE /\ pc' = [pc EXCEPT ![c] = "getLatestBlockhash"]
                              /\ chainQueries' = [chainQueries EXCEPT ![c] = Inc(@)]
                              /\ UNCHANGED outcome
    /\ UNCHANGED welcomeVars
    /\ UNCHANGED <<request, transaction, nreq, signCalls, splTokenModule, walletDeclines,
                   latestBlockhash, receipt>>

\* connection.getLatestBlockhash() answered from the blockhash the
\* transaction of the call already has, when it has one.
getLatestBlockhash_Cached(c) ==
    IF transaction[c] # NoTransaction THEN transaction[c].recentBlockhash
    ELSE latestBlockhash

\* What connection.getLatestBlockhash() (line 151) returns to call c: the
\* blockhash of the chain's latest block at the time of the reply.
getLatestBlockhash(c) == latestBlockhash

\* Lines 151-186: getLatestBlockhash returns or throws; the transaction is
\* created; a native transfer is completed here, a token transfer goes on
\* to load the token library.
GetLatestBlockhash(c) ==
    /\ pc[c] = "getLatestBlockhash"
    /\ \E r \in {getLatestBlockhash(c), "RpcError"} :
          IF r = "RpcError"
          THEN /\ Catch(c, Error("RpcError", ""))
               /\ UNCHANGED <<request, transaction, nreq, signCalls>>
          ELSE LET req == paymentReq[c]
                   tx == Transaction(feePayer(SignerKey, req), r)
               IN  IF IsNative(req.asset)
                   THEN IF BigIntThrows(amountOf[req.maxAmountRequired])
                        THEN /\ Catch(c, Error("RangeError", ""))
                             /\ UNCHANGED <<request, transaction, nreq, signCalls>>
                        ELSE Finish(c, add(tx, SystemTransfer(SignerKey, req.payTo,
                                                              amountOf[req.maxAmountRequired])))
                   ELSE IF USE_EMPTY_TRANSACTION
                   THEN Finish(c, tx)
                   ELSE /\ transaction' = [transaction EXCEPT ![c] = tx]
                        /\ pc' = [pc EXCEPT ![c] =
                                     IF splTokenModule THEN "getSPLToken" ELSE "import"]
                        /\ UNCHANGED <<request, outcome, nreq, signCalls>>
    /\ UNCHANGED welcomeVars
    /\ UNCHANGED <<response, paymentReq, toAccountInfo, n402, constructions, chainQueries,
                   splTokenModule, walletDeclines, latestBlockhash, receipt, elapsed>>

\* Lines 25-27: the import started because the cache was found empty (line
\* 25) fails, or returns the token library, which is written to the cache.
Import(c) ==
    /\ pc[c] = "import"
    /\ \E imported \in BOOLEAN :
          IF imported
          THEN /\ splTokenModule' = TRUE
               /\ pc' = [pc EXCEPT ![c] = "getSPLToken"]
               /\ UNCHANGED outcome
          ELSE /\ Catch(c, Error("ImportError", ""))
               /\ UNCHANGED splTokenModule
    /\ UNCHANGED welcomeVars
    /\ UNCHANGED <<request, response, paymentReq, transaction, toAccountInfo, nreq, n402,
                   constructions, chainQueries, signCalls, walletDeclines, latestBlockhash,
                   receipt, elapsed>>

\* Lines 186-216: getSPLToken has returned the token library; the mint is
\* parsed, the two associated accounts are derived and the recipient's
\* account is looked up.
GetSPLToken(c) ==
    /\ pc[c] = "getSPLToken"
    /\ IF paymentReq[c].asset \notin ValidAddresses
       THEN /\ Catch(c, Error("InvalidPublicKey", ""))
            /\ UNCHANGED chainQueries
       ELSE /\ pc' = [pc EXCEPT ![c] = "getAccountInfo"]
            /\ chainQueries' = [chainQueries EXCEPT ![c] = Inc(@)]
            /\ UNCHANGED outcome
    /\ UNCHANGED welcomeVars
    /\ UNCHANGED <<request, response, paymentReq, transaction, toAccountInfo, nreq, n402,
                   constructions, signCalls, splTokenModule, walletDeclines,
                   latestBlockhash, receipt, elapsed>>

\* Lines 216-256: getAccountInfo returns or throws; the account creation is
\* added when the recipient's account is missing, then the token transfer.
GetAccountInfo(c) ==
    /\ pc[c] = "getAccountInfo"
    /\ \E info \in {"exists", "missing", "RpcError"} :
          IF info = "RpcError"
          THEN /\ Catch(c, Error("RpcError", ""))
               /\ UNCHANGED <<request, transaction, toAccountInfo, nreq, signCalls>>
          ELSE LET req == paymentReq[c]
                   fromTokenAccount == getAssociatedTokenAddress(req.asset, SignerKey)
                   toTokenAccount == getAssociatedTokenAddress(req.asset, req.payTo)
                   created ==
                       IF info = "missing"
                       THEN add(transaction[c],
                                createAssociatedTokenAccountInstruction(
                                    SignerKey, toTokenAccount, req.payTo, req.asset))
                       ELSE transaction[c]
               IN  /\ toAccountInfo' = [toAccountInfo EXCEPT ![c] = info]
                   /\ IF BigIntThrows(amountOf[req.maxAmountRequired])
                      THEN /\ Catch(c, Error("RangeError", ""))
                           /\ transaction' = [transaction EXCEPT ![c] = created]
                           /\ UNCHANGED <<request, nreq, signCalls>>
                      ELSE Finish(c, add(created,
                                         createTransferInstruction(
                                             fromTokenAccount, toTokenAccount, SignerKey,
                                             amountOf[req.maxAmountRequired])))
    /\ UNCHANGED welcomeVars
    /\ UNCHANGED <<response, paymentReq, n402, constructions, chainQueries, splTokenModule,
                   walletDeclines, latestBlockhash, receipt, elapsed>>

\* The caller passes the x-payment-response header of the response it was
\* returned to decodeSolanaPaymentResponse.
DecodeReceipt(c) ==
    /\ pc[c] = "Done"
    /\ outcome[c].settled = "resolved"
    /\ receipt[c] = NotDecoded
    /\ receipt' = [receipt EXCEPT ![c] =
                      decodeSolanaPaymentResponse(outcome[c].value.headers.xPaymentResponse)]
    /\ UNCHANGED welcomeVars
    /\ UNCHANGED <<pc, request, response, paymentReq, transaction, toAccountInfo, outcome,
                   nreq, n402, constructions, chainQueries, signCalls, splTokenModule,
                   walletDeclines, latestBlockhash, elapsed>>

\* A second passes while call c is in payment construction.  (The clock
\* stops counting above TimeoutSeconds.)
Tick(c) ==
    /\ InConstructionAt(pc[c])
    /\ elapsed[c] <= TimeoutSeconds
    /\ elapsed' = [elapsed EXCEPT ![c] = @ + 1]
    /\ UNCHANGED welcomeVars
    /\ UNCHANGED <<pc, request, response, paymentReq, transaction, toAccountInfo, outcome,
                   nreq, n402, constructions, chainQueries, signCalls, splTokenModule,
                   walletDeclines, latestBlockhash, receipt>>

\* The chain produces a block.
NewBlock ==
    /\ \E b \in Blockhashes \ {latestBlockhash} : latestBlockhash' = b
    /\ UNCHANGED welcomeVars
    /\ UNCHANGED <<pc, request, response, paymentReq, transaction, toAccountInfo, outcome,
                   nreq, n402, constructions, chainQueries, signCalls, splTokenModule,
                   walletDeclines, receipt, elapsed>>

\* A 402 response with any of the bodies of the model.
Response402(c) == Response402In(c, Bodies)

Next ==
    \/ NewBlock
    \/ \E c \in SingleCall :
        \/ Dispatch(c)
        \/ ResponseFulfilled(c)
        \/ ResponseRejected(c)
        \/ Response402(c)
        \/ GetLatestBlockhash(c)
        \/ Import(c)
        \/ GetSPLToken(c)
        \/ GetAccountInfo(c)
        \/ DecodeReceipt(c)

Spec == Init /\ [][Next]_vars

\* Every pending network request, chain query, import and wallet call
\* eventually returns.
FairSpec == Spec /\ \A c \in SingleCall :
    /\ WF_vars(Dispatch(c))
    /\ WF_vars(ResponseFulfilled(c) \/ ResponseRejected(c) \/ Response402(c))
    /\ WF_vars(GetLatestBlockhash(c))
    /\ WF_vars(Import(c))
    /\ WF_vars(GetSPLToken(c))
    /\ WF_vars(GetAccountInfo(c))

----------------------------------------------------------------------------
(* Two caller requests on one client *)

TwoCalls == {"call", "other"}

\* The bodies of the server the two requests go to: a native requirement and
\* a token requirement.
ConcurrentBodies ==
    {X402Response("accepts", <<PaymentRequirements("exact", "solana-devnet", "1000", "ADDR", a)>>) :
        a \in {"", "MINT"}}

\* That server answers 402 to a request that carries no payment, and to no other.
Unpaid402(c) ==
    /\ request[c].headers.XPayment = NoHeader
    /\ Response402In(c, ConcurrentBodies)

\* One caller request to that server, with the wall clock running.
TimedNext ==
    \/ NewBlock
    \/ \E c \in SingleCall :
        \/ Dispatch(c)
        \/ ResponseFulfilled(c)
        \/ ResponseRejected(c)
        \/ Unpaid402(c)
        \/ Tick(c)
        \/ GetLatestBlockhash(c)
        \/ Import(c)
        \/ GetSPLToken(c)
        \/ GetAccountInfo(c)
        \/ DecodeReceipt(c)

TimedSpec == Init /\ [][TimedNext]_vars

ConcurrentInit == InitWith(TwoCalls) /\ NotRendered

\* Any step of either call: the interceptor invocations interleave at their awaits.
ConcurrentNext ==
    \/ NewBlock
    \/ \E c \in TwoCalls :
        \/ Dispatch(c)
        \/ ResponseFulfilled(c)
        \/ ResponseRejected(c)
        \/ Unpaid402(c)
        \/ GetLatestBlockhash(c)
        \/ Import(c)
        \/ GetSPLToken(c)
        \/ GetAccountInfo(c)
        \/ DecodeReceipt(c)

ConcurrentSpec == ConcurrentInit /\ [][ConcurrentNext]_vars

TypeOK ==
    /\ \A c \in Calls : pc[c] \in {"Idle", "AwaitingResponse", "getLatestBlockhash",
                                  "import", "getSPLToken", "getAccountInfo", "Done"}
    /\ \A c \in Calls : nreq[c] \in 0..MaxReq /\ n402[c] \in 0..MaxReq

----------------------------------------------------------------------------
(* The Welcome component: handlers *)

\* The part of a closure that a handler reading only the variables in reads
\* can see: the others are given their initial values.
Project(closure, reads) ==
    [selectedNetwork |-> IF "selectedNetwork" \in reads THEN closure.selectedNetwork
                         ELSE "mainnet",
     account |-> IF "account" \in reads THEN closure.account ELSE NullString,
     metamaskAccount |-> IF "metamaskAccount" \in reads THEN closure.metamaskAccount
                         ELSE NullString,
     permitSignature |-> IF "permitSignature" \in reads THEN closure.permitSignature ELSE Null,
     permitParams |-> IF "permitParams" \in reads THEN closure.permitParams
                      ELSE [value |-> "1000000", deadline |-> 3600]]

\* The state a handler reads is that of the render it was created in.
Closure(reads) ==
    Project([selectedNetwork |-> selectedNetwork, account |-> account,
             metamaskAccount |-> metamaskAccount, permitSignature |-> permitSignature,
             permitParams |-> permitParams], reads)

\* What fetchBackendBalance reads, lines 211, 223, 234.
BalanceReads == {"account", "selectedNetwork"}

\* The local variables of a handler that are not yet assigned.
NoLocals == [account |-> "", nonce |-> 0, chainId |-> ""]

\* An invocation of handler suspended at the await named at.
Task(handler, at, closure, locals) ==
    [handler |-> handler, at |-> at, closure |-> closure, locals |-> locals]

Suspended(handler, at) == {t \in BagToSet(tasks) : t.handler = handler /\ t.at = at}

\* A callback passed to setTimeout by origin.
Timer(origin, closure) == [origin |-> origin, closure |-> closure]

TaskRoom == BagCardinality(tasks) < MaxTasks
TimerRoom == BagCardinality(timers) < MaxTimers

Await(t) == tasks' = tasks (+) SetToBag({t})
Resume(t, next) == tasks' = (tasks (-) SetToBag({t})) (+) SetToBag({next})
Return(t) == tasks' = tasks (-) SetToBag({t})
setTimeout(timer) == timers' = timers (+) SetToBag({timer})

\* The variables of the component a step leaves alone, given those it sets.
Frame(changed) ==
    /\ IF "selectedNetwork" \in changed THEN TRUE ELSE UNCHANGED selectedNetwork
    /\ IF "client" \in changed THEN TRUE ELSE UNCHANGED client
    /\ IF "account" \in changed THEN TRUE ELSE UNCHANGED account
    /\ IF "loading" \in changed THEN TRUE ELSE UNCHANGED loading
    /\ IF "error" \in changed THEN TRUE ELSE UNCHANGED error
    /\ IF "weatherData" \in changed THEN TRUE ELSE UNCHANGED weatherData
    /\ IF "paymentInfo" \in changed THEN TRUE ELSE UNCHANGED paymentInfo
    /\ IF "exportAddress" \in changed THEN TRUE ELSE UNCHANGED exportAddress
    /\ IF "exportedKey" \in changed THEN TRUE ELSE UNCHANGED exportedKey
    /\ IF "metamaskAccount" \in changed THEN TRUE ELSE UNCHANGED metamaskAccount
    /\ IF "metamaskLoading" \in changed THEN TRUE ELSE UNCHANGED metamaskLoading
    /\ IF "metamaskError" \in changed THEN TRUE ELSE UNCHANGED metamaskError
    /\ IF "permitSignature" \in changed THEN TRUE ELSE UNCHANGED permitSignature
    /\ IF "permitParams" \in changed THEN TRUE ELSE UNCHANGED permitParams
    /\ IF "backendEthBalance" \in changed THEN TRUE ELSE UNCHANGED backendEthBalance
    /\ IF "backendUsdcBalance" \in changed THEN TRUE ELSE UNCHANGED backendUsdcBalance
    /\ IF "balanceLoading" \in changed THEN TRUE ELSE UNCHANGED balanceLoading
    /\ IF "tasks" \in changed THEN TRUE ELSE UNCHANGED tasks
    /\ IF "timers" \in changed THEN TRUE ELSE UNCHANGED timers
    /\ IF "walletChain" \in changed THEN TRUE ELSE UNCHANGED walletChain
    /\ IF "usdcNonce" \in changed THEN TRUE ELSE UNCHANGED usdcNonce
    /\ UNCHANGED <<ethereum, clientVars>>

\* The render after a step: it throws when the permit panel dereferences a
\* member the signature lacks, and the component is then unmounted.
Render == mounted' = ~RenderThrows(account', permitSignature')

\* The disabled attributes of the buttons, lines 545, 577, 593, 611, 683, 702,
\* 723, 769.
connectAndInitDisabled == loading \/ client # Null
fetchBackendBalanceDisabled == balanceLoading
fetchWeatherDataDisabled == loading \/ client = Null
connectMetaMaskDisabled == metamaskLoading
executePermitSignatureDisabled == metamaskLoading \/ account = NullString
executePermitDisabled_Never == FALSE
executePermitDisabled == loading
executeTransferFromDisabled == loading
exportPrivateKeyDisabled == loading

\* What is rendered, lines 549, 599, 607, 633, 691, 697, 713.
WalletPanelShown == account # NullString
PermitPanelShown == account # NullString /\ permitSignature # Null
HasTxHash(sig) == sig # Null /\ "permitTxHash" \in DOMAIN sig

\* connectAndInit, lines 138-142: up to the await of initialize().
connectAndInit ==
    /\ mounted /\ ~connectAndInitDisabled /\ TaskRoom
    /\ error' = NullString
    /\ loading' = TRUE
    /\ Await(Task("connectAndInit", "initialize", Closure(BalanceReads), NoLocals))
    /\ Frame({"error", "loading", "tasks"})
    /\ Render

\* connectAndInit, lines 143-159: initialize() returned or threw.
connectAndInit_ResumeWith(addresses) ==
    /\ mounted
    /\ \E t \in Suspended("connectAndInit", "initialize") :
        /\ \/ /\ TimerRoom
              /\ \E address \in addresses :
                    /\ client' = X402Client(address)
                    /\ account' = address
              /\ error' = NullString
              /\ setTimeout(Timer("connectAndInit", t.closure))
           \/ /\ error' = RequestFailed
              /\ UNCHANGED <<client, account, timers>>
        /\ loading' = FALSE
        /\ Return(t)
    /\ Frame({"client", "account", "error", "timers", "loading", "tasks"})
    /\ Render

connectAndInit_Resume == connectAndInit_ResumeWith(BackendAddresses)

\* disconnect, lines 163-169.
disconnect ==
    /\ mounted /\ WalletPanelShown
    /\ client' = Null
    /\ account' = NullString
    /\ weatherData' = NullString
    /\ paymentInfo' = NullString
    /\ error' = NullString
    /\ Frame({"client", "account", "weatherData", "paymentInfo", "error"})
    /\ Render

\* fetchWeatherData, lines 172-185: up to the await of GET /item1.
fetchWeatherData ==
    /\ mounted /\ ~fetchWeatherDataDisabled /\ TaskRoom
    /\ IF client = Null
       THEN /\ error' = "connect the wallet first"
            /\ UNCHANGED <<loading, paymentInfo, tasks>>
       ELSE /\ loading' = TRUE
            /\ error' = NullString
            /\ paymentInfo' = NullString
            /\ Await(Task("fetchWeatherData", "get", Closure({}), NoLocals))
    /\ Frame({"error", "loading", "paymentInfo", "tasks"})
    /\ Render

\* fetchWeatherData, lines 187-206: the response, with or without data and
\* with no, a decodable or an undecodable x_payment_response; or an error.
fetchWeatherData_Resume ==
    /\ mounted
    /\ \E t \in Suspended("fetchWeatherData", "get") :
        /\ \/ /\ \E data \in BOOLEAN :
                    weatherData' = IF data THEN "item1" ELSE weatherData
              /\ \E xpr \in {"none", "decodable", "undecodable"} :
                    paymentInfo' = CASE xpr = "none" -> paymentInfo
                                     [] xpr = "decodable" -> "payment"
                                     [] xpr = "undecodable" -> NullString
              /\ UNCHANGED error
           \/ /\ error' = RequestFailed
              /\ UNCHANGED <<weatherData, paymentInfo>>
        /\ loading' = FALSE
        /\ Return(t)
    /\ Frame({"weatherData", "paymentInfo", "error", "loading", "tasks"})
    /\ Render

\* fetchBackendBalance of the render with state closure, lines 210-219: up to
\* the await of eth_getBalance.  (setBalanceLoading(true) of line 213 is
\* undone by the finally of line 259 when line 216 returns.)
fetchBackendBalanceFrom(closure) ==
    IF closure.account = NullString
    THEN UNCHANGED <<balanceLoading, tasks>>
    ELSE IF ~ethereum
    THEN /\ balanceLoading' = FALSE
         /\ UNCHANGED tasks
    ELSE /\ TaskRoom
         /\ balanceLoading' = TRUE
         /\ Await(Task("fetchBackendBalance", "eth_getBalance", closure, NoLocals))

\* The refresh button, line 575.
fetchBackendBalance ==
    /\ mounted /\ WalletPanelShown /\ ~fetchBackendBalanceDisabled
    /\ fetchBackendBalanceFrom(Closure(BalanceReads))
    /\ Frame({"balanceLoading", "tasks"})
    /\ Render

\* fetchBackendBalance, lines 221-228 and 254-260: eth_getBalance returned or threw.
fetchBackendBalance_ResumeEth ==
    /\ mounted
    /\ \E t \in Suspended("fetchBackendBalance", "eth_getBalance") :
        \/ /\ backendEthBalance' = "1.000000"
           /\ Resume(t, Task("fetchBackendBalance", "eth_call", t.closure, t.locals))
           /\ UNCHANGED <<backendUsdcBalance, balanceLoading>>
        \/ /\ backendEthBalance' = "0.000000"
           /\ backendUsdcBalance' = "0.000000"
           /\ balanceLoading' = FALSE
           /\ Return(t)
    /\ Frame({"backendEthBalance", "backendUsdcBalance", "balanceLoading", "tasks"})
    /\ Render

\* The contract a suspended fetchBackendBalance asks for the balance, line 234.
UsdcQueried(t) == NETWORKS[t.closure.selectedNetwork].usdcAddress

\* fetchBackendBalance, lines 230-260: eth_call returned a balance, returned
\* "0x", or threw.
fetchBackendBalance_ResumeUsdc ==
    /\ mounted
    /\ \E t \in Suspended("fetchBackendBalance", "eth_call") :
        /\ \E usdcBalance \in {"balance", "0x", "throws"} :
              backendUsdcBalance' = IF usdcBalance = "balance"
                                    THEN "balanceOf@" \o UsdcQueried(t)
                                    ELSE "0.000000"
        /\ balanceLoading' = FALSE
        /\ Return(t)
    /\ Frame({"backendUsdcBalance", "balanceLoading", "tasks"})
    /\ Render

\* A timeout fires: each callback calls the fetchBackendBalance of the render
\* in which the handler that set it was created (lines 149-154, 509, 530-533).
Timeout ==
    /\ mounted
    /\ \E timer \in BagToSet(timers) :
        /\ timers' = timers (-) SetToBag({timer})
        /\ fetchBackendBalanceFrom(timer.closure)
    /\ Frame({"timers", "balanceLoading", "tasks"})
    /\ Render

\* executePermit, lines 264-272: up to the await of POST /execute-permit.
executePermit ==
    /\ mounted /\ PermitPanelShown /\ ~HasTxHash(permitSignature)
    /\ ~executePermitDisabled /\ TaskRoom
    /\ IF client = Null
       THEN /\ error' = "connect the wallet and sign a permit first"
            /\ UNCHANGED <<loading, tasks>>
       ELSE /\ loading' = TRUE
            /\ error' = NullString
            /\ Await(Task("executePermit", "post", Closure({"permitSignature", "selectedNetwork"}), NoLocals))
    /\ Frame({"error", "loading", "tasks"})
    /\ Render

\* The request a suspended executePermit has posted, lines 277-286.
PermitPosted(t) == ExecutePermitBody(t.closure.permitSignature, t.closure.selectedNetwork)

\* executePermit, lines 288-301: the backend answered with the hash of the
\* transaction it sent, or the request failed.  The update of line 291 is
\* applied to the permitSignature of the state, whatever it is by now.
executePermit_Resume ==
    /\ mounted
    /\ \E t \in Suspended("executePermit", "post") :
        /\ \/ /\ usdcNonce < MaxNonce
              /\ permitSignature' = WithTxHash(permitSignature, TxHash(PermitPosted(t)))
              /\ usdcNonce' = usdcNonce + 1
              /\ UNCHANGED error
           \/ /\ error' = RequestFailed
              /\ UNCHANGED <<permitSignature, usdcNonce>>
        /\ loading' = FALSE
        /\ Return(t)
    /\ Frame({"permitSignature", "usdcNonce", "error", "loading", "tasks"})
    /\ Render

\* The export input, line 762.
setExportAddress ==
    /\ mounted
    /\ \E address \in ExportAddresses \ {exportAddress} : exportAddress' = address
    /\ Frame({"exportAddress"})
    /\ Render

\* exportPrivateKey, lines 305-313: up to the await of POST /api/cdp/accounts/export.
exportPrivateKey ==
    /\ mounted /\ ~exportPrivateKeyDisabled /\ TaskRoom
    /\ IF exportAddress = ""
       THEN /\ error' = "enter an address"
            /\ UNCHANGED <<loading, exportedKey, tasks>>
       ELSE /\ loading' = TRUE
            /\ error' = NullString
            /\ exportedKey' = NullString
            /\ Await(Task("exportPrivateKey", "post", Closure({}), NoLocals))
    /\ Frame({"error", "loading", "exportedKey", "tasks"})
    /\ Render

\* exportPrivateKey, lines 314-320.
exportPrivateKey_Resume ==
    /\ mounted
    /\ \E t \in Suspended("exportPrivateKey", "post") :
        /\ \/ exportedKey' = "private key" /\ UNCHANGED error
           \/ error' = RequestFailed /\ UNCHANGED exportedKey
        /\ loading' = FALSE
        /\ Return(t)
    /\ Frame({"exportedKey", "error", "loading", "tasks"})
    /\ Render

\* connectMetaMask, lines 324-336: up to the await of eth_requestAccounts.
connectMetaMask ==
    /\ mounted /\ WalletPanelShown /\ metamaskAccount = NullString
    /\ ~connectMetaMaskDisabled /\ TaskRoom
    /\ IF ~ethereum
       THEN /\ metamaskError' = "install MetaMask first"
            /\ UNCHANGED <<metamaskLoading, tasks>>
       ELSE /\ metamaskLoading' = TRUE
            /\ metamaskError' = NullString
            /\ Await(Task("connectMetaMask", "eth_requestAccounts", Closure({"selectedNetwork"}),
                            NoLocals))
    /\ Frame({"metamaskError", "metamaskLoading", "tasks"})
    /\ Render

\* connectMetaMask, lines 336-341 and 351-355: the wallet answered with its
\* accounts, or the user declined.
connectMetaMask_ResumeAccounts ==
    /\ mounted
    /\ \E t \in Suspended("connectMetaMask", "eth_requestAccounts") :
        \/ /\ \E a \in MetaMaskAccounts :
                /\ metamaskAccount' = a
                /\ Resume(t, Task("connectMetaMask", "eth_chainId", t.closure,
                                  [t.locals EXCEPT !.account = a]))
           /\ UNCHANGED <<metamaskError, metamaskLoading>>
        \/ /\ metamaskError' = UserRejected
           /\ metamaskLoading' = FALSE
           /\ Return(t)
           /\ UNCHANGED metamaskAccount
    /\ Frame({"metamaskAccount", "metamaskError", "metamaskLoading", "tasks"})
    /\ Render

\* network.chainIdHex of the render a task was created in (line 111).
ChainWanted(t) == NETWORKS[t.closure.selectedNetwork].chainIdHex

CannotSwitch == "cannot switch to the current network"

\* connectMetaMask, lines 341-350 with checkCurrentNetwork, lines 366-373:
\* eth_chainId returned the wallet's chain, or threw (which counts as another
\* chain).
connectMetaMask_ResumeChainId ==
    /\ mounted
    /\ \E t \in Suspended("connectMetaMask", "eth_chainId") :
        \E isCurrentNetwork \in {walletChain = ChainWanted(t), FALSE} :
            IF isCurrentNetwork
            THEN /\ metamaskError' = NullString
                 /\ metamaskLoading' = FALSE
                 /\ Return(t)
            ELSE /\ Resume(t, Task("connectMetaMask", "wallet_switchEthereumChain",
                                   t.closure, t.locals))
                 /\ UNCHANGED <<metamaskError, metamaskLoading>>
    /\ Frame({"metamaskError", "metamaskLoading", "tasks"})
    /\ Render

\* connectMetaMask, lines 343-350 with switchToCurrentNetwork, lines 376-408:
\* the wallet switched, does not know the chain (code 4902), or refused.
connectMetaMask_ResumeSwitch ==
    /\ mounted
    /\ \E t \in Suspended("connectMetaMask", "wallet_switchEthereumChain") :
        \/ /\ walletChain' = ChainWanted(t)
           /\ metamaskError' = NullString
           /\ metamaskLoading' = FALSE
           /\ Return(t)
        \/ /\ Resume(t, Task("connectMetaMask", "wallet_addEthereumChain",
                             t.closure, t.locals))
           /\ UNCHANGED <<walletChain, metamaskError, metamaskLoading>>
        \/ /\ metamaskError' = CannotSwitch
           /\ metamaskLoading' = FALSE
           /\ Return(t)
           /\ UNCHANGED walletChain
    /\ Frame({"walletChain", "metamaskError", "metamaskLoading", "tasks"})
    /\ Render

\* connectMetaMask, lines 343-350 with lines 385-402: the wallet added the
\* chain, or refused.  (A wallet that adds a chain may switch to it or stay
\* where it is; the handler does not ask again.)
connectMetaMask_ResumeAdd ==
    /\ mounted
    /\ \E t \in Suspended("connectMetaMask", "wallet_addEthereumChain") :
        /\ \/ /\ \E chain \in {ChainWanted(t), walletChain} : walletChain' = chain
              /\ metamaskError' = NullString
           \/ /\ metamaskError' = CannotSwitch
              /\ UNCHANGED walletChain
        /\ metamaskLoading' = FALSE
        /\ Return(t)
    /\ Frame({"walletChain", "metamaskError", "metamaskLoading", "tasks"})
    /\ Render

\* disconnectMetaMask, lines 359-363.
disconnectMetaMask ==
    /\ mounted /\ WalletPanelShown /\ metamaskAccount # NullString
    /\ metamaskAccount' = NullString
    /\ permitSignature' = Null
    /\ metamaskError' = NullString
    /\ Frame({"metamaskAccount", "permitSignature", "metamaskError"})
    /\ Render

\* The amount and expiry inputs, lines 651 and 666.
setPermitParams ==
    /\ mounted /\ WalletPanelShown /\ metamaskAccount # NullString
    /\ \E v \in PermitValues, d \in Deadlines :
        /\ [value |-> v, deadline |-> d] # permitParams
        /\ permitParams' = [value |-> v, deadline |-> d]
    /\ Frame({"permitParams"})
    /\ Render

\* executePermitSignature, lines 411-435: up to the await of the eth_call
\* that reads nonces(owner).
executePermitSignature ==
    /\ mounted /\ WalletPanelShown /\ metamaskAccount # NullString
    /\ ~executePermitSignatureDisabled /\ TaskRoom
    /\ IF ~ethereum
       THEN /\ metamaskError' = "MetaMask is not connected"
            /\ UNCHANGED <<metamaskLoading, permitSignature, tasks>>
       ELSE /\ metamaskLoading' = TRUE
            /\ metamaskError' = NullString
            /\ permitSignature' = Null
            /\ Await(Task("executePermitSignature", "nonces",
                            Closure({"metamaskAccount", "account", "permitParams",
                                     "selectedNetwork"}), NoLocals))
    /\ Frame({"metamaskError", "metamaskLoading", "permitSignature", "tasks"})
    /\ Render

\* executePermitSignature, lines 436-440 and 482-486: the nonce came back, or
\* the call threw.
executePermitSignature_ResumeNonce ==
    /\ mounted
    /\ \E t \in Suspended("executePermitSignature", "nonces") :
        \/ /\ Resume(t, Task("executePermitSignature", "eth_chainId", t.closure,
                             [t.locals EXCEPT !.nonce = usdcNonce]))
           /\ UNCHANGED <<metamaskError, metamaskLoading>>
        \/ /\ metamaskError' = UserRejected
           /\ metamaskLoading' = FALSE
           /\ Return(t)
    /\ Frame({"metamaskError", "metamaskLoading", "tasks"})
    /\ Render

\* executePermitSignature, lines 439-462 and 482-486: the chain id came back,
\* or the call threw.
executePermitSignature_ResumeChainId ==
    /\ mounted
    /\ \E t \in Suspended("executePermitSignature", "eth_chainId") :
        \/ /\ Resume(t, Task("executePermitSignature", "eth_signTypedData_v4", t.closure,
                             [t.locals EXCEPT !.chainId = walletChain]))
           /\ UNCHANGED <<metamaskError, metamaskLoading>>
        \/ /\ metamaskError' = UserRejected
           /\ metamaskLoading' = FALSE
           /\ Return(t)
    /\ Frame({"metamaskError", "metamaskLoading", "tasks"})
    /\ Render

\* The permitSignature a suspended executePermitSignature sets when the wallet
\* signs, lines 443-480.
Signed(t) ==
    LET network == NETWORKS[t.closure.selectedNetwork]
        domain == getDomainSeparator(network.usdcAddress, t.locals.chainId,
                                     network.usdcName, network.usdcVersion)
        message == [owner |-> t.closure.metamaskAccount, spender |-> t.closure.account,
                    value |-> permitValueOf[t.closure.permitParams.value],
                    nonce |-> t.locals.nonce, deadline |-> t.closure.permitParams.deadline]
    IN  PermitSignature(t.closure.metamaskAccount, t.closure.account, t.closure.permitParams,
                        t.locals.nonce,
                        signTypedData(t.closure.metamaskAccount, domain, message))

\* executePermitSignature, lines 464-486: the wallet signed, or the user declined.
executePermitSignature_ResumeSign ==
    /\ mounted
    /\ \E t \in Suspended("executePermitSignature", "eth_signTypedData_v4") :
        /\ \/ permitSignature' = Signed(t) /\ UNCHANGED metamaskError
           \/ metamaskError' = UserRejected /\ UNCHANGED permitSignature
        /\ metamaskLoading' = FALSE
        /\ Return(t)
    /\ Frame({"permitSignature", "metamaskError", "metamaskLoading", "tasks"})
    /\ Render

\* executeTransferFrom, lines 490-504: up to the await of POST /transfer-from.
executeTransferFrom ==
    /\ mounted /\ PermitPanelShown /\ HasTxHash(permitSignature)
    /\ ~executeTransferFromDisabled /\ TaskRoom
    /\ IF client = Null
       THEN /\ error' = "sign and execute a permit first"
            /\ UNCHANGED <<loading, tasks>>
       ELSE /\ loading' = TRUE
            /\ error' = NullString
            /\ Await(Task("executeTransferFrom", "post",
                            Closure({"permitSignature"} \cup BalanceReads), NoLocals))
    /\ Frame({"error", "loading", "tasks"})
    /\ Render

\* executeTransferFrom, lines 506-514.
executeTransferFrom_Resume ==
    /\ mounted
    /\ \E t \in Suspended("executeTransferFrom", "post") :
        /\ \/ /\ TimerRoom
              /\ setTimeout(Timer("executeTransferFrom", Project(t.closure, BalanceReads)))
              /\ UNCHANGED error
           \/ /\ error' = RequestFailed
              /\ UNCHANGED timers
        /\ loading' = FALSE
        /\ Return(t)
    /\ Frame({"timers", "error", "loading", "tasks"})
    /\ Render

\* The network selector, lines 525-535.
setSelectedNetwork ==
    /\ mounted
    /\ \E newNetwork \in NetworkKeys \ {selectedNetwork} :
        /\ selectedNetwork' = newNetwork
        /\ IF account # NullString
           THEN TimerRoom /\ setTimeout(Timer("onChange", Closure(BalanceReads)))
           ELSE UNCHANGED timers
    /\ Frame({"selectedNetwork", "timers"})
    /\ Render

\* The page is opened in a browser, with or without MetaMask; nothing of the
\* interceptor runs.
WelcomeInit ==
    /\ InitWith({})
    /\ walletDeclines = FALSE
    /\ useState
    /\ mounted = TRUE
    /\ tasks = EmptyBag
    /\ timers = EmptyBag
    /\ ethereum \in BOOLEAN
    /\ walletChain \in WalletChains
    /\ usdcNonce = 0

\* The user works through the permit steps 1 to 5: the backend wallet,
\* MetaMask, the permit parameters, the signature, its execution and the
\* transfer.  The timeouts set stay pending.
PermitNext ==
    \/ connectAndInit
    \/ connectAndInit_Resume
    \/ disconnect
    \/ connectMetaMask
    \/ connectMetaMask_ResumeAccounts
    \/ connectMetaMask_ResumeChainId
    \/ connectMetaMask_ResumeSwitch
    \/ connectMetaMask_ResumeAdd
    \/ disconnectMetaMask
    \/ setPermitParams
    \/ executePermitSignature
    \/ executePermitSignature_ResumeNonce
    \/ executePermitSignature_ResumeChainId
    \/ executePermitSignature_ResumeSign
    \/ executePermit
    \/ executePermit_Resume
    \/ executeTransferFrom
    \/ executeTransferFrom_Resume

PermitSpec == WelcomeInit /\ [][PermitNext]_vars

\* The browser has MetaMask, on a chain that is none of NETWORKS.
LoadingInit == WelcomeInit /\ ethereum /\ walletChain = "0x1"

\* Every handler that sets loading (lines 140, 178, 270, 310, 496), with the
\* handlers that decide which of their buttons are shown and enabled.  The
\* backend has one wallet, the user leaves the permit parameters as they are,
\* and the timeouts set stay pending.
LoadingNext ==
    \/ connectAndInit
    \/ connectAndInit_ResumeWith({"0xB1"})
    \/ disconnect
    \/ connectMetaMask
    \/ connectMetaMask_ResumeAccounts
    \/ connectMetaMask_ResumeChainId
    \/ connectMetaMask_ResumeSwitch
    \/ connectMetaMask_ResumeAdd
    \/ disconnectMetaMask
    \/ executePermitSignature
    \/ executePermitSignature_ResumeNonce
    \/ executePermitSignature_ResumeChainId
    \/ executePermitSignature_ResumeSign
    \/ executePermit
    \/ executePermit_Resume
    \/ executeTransferFrom
    \/ executeTransferFrom_Resume
    \/ fetchWeatherData
    \/ fetchWeatherData_Resume
    \/ setExportAddress
    \/ exportPrivateKey
    \/ exportPrivateKey_Resume

LoadingSpec == LoadingInit /\ [][LoadingNext]_vars

\* The user connects the backend wallet, selects networks and refreshes the
\* balances.
BalanceNext ==
    \/ connectAndInit
    \/ connectAndInit_Resume
    \/ disconnect
    \/ fetchBackendBalance
    \/ fetchBackendBalance_ResumeEth
    \/ fetchBackendBalance_ResumeUsdc
    \/ Timeout
    \/ setSelectedNetwork

BalanceSpec == WelcomeInit /\ [][BalanceNext]_vars

----------------------------------------------------------------------------
(* Vocabulary of the claims *)

InConstruction(c) == InConstructionAt(pc[c])

\* The request last issued by call c carries an X-Payment header.
CarriesPayment(c) == request[c].headers.XPayment # NoHeader

\* The serialized artifact inside the X-Payment header of call c's request.
HeaderArtifact(c) == request[c].headers.XPayment.base64.json.payload.transaction.base64

\* The errors raised by lines 82-89 before a requirement is in hand.
ProtocolErrors == {"NoPaymentOptions", "TypeError"}

\* The errors thrown inside createSolanaPaymentHeader.
ConstructionErrors ==
    {"InvalidPublicKey", "RpcError", "ImportError", "RangeError", "WalletSignTransactionError"}

\* Call c has received a 402 response whose data holds a list of requirements.
Got402List(c) == response[c].status = 402 /\ response[c].data.shape = "accepts"

\* A requirement that names the network of the client's connection.
Matches(req) == req.network = AdapterNetwork

\* A body every entry of which has every field the client reads.
WellFormed(data) ==
    /\ data.shape = "accepts"
    /\ \A i \in 1..Len(data.accepts) :
          /\ data.accepts[i].scheme # Undefined
          /\ data.accepts[i].network # Undefined
          /\ data.accepts[i].payTo # Undefined
          /\ data.accepts[i].maxAmountRequired # Undefined

\* A requirement whose network passes the client's own test (line 92).
Payable(req) == IsSolanaNetwork(req.network)

\* The first entry of accepts whose network passes the client's test.
FirstMatching(accepts) ==
    accepts[CHOOSE i \in 1..Len(accepts) :
                /\ Payable(accepts[i])
                /\ \A j \in 1..(i - 1) : ~Payable(accepts[j])]

\* The transfer instructions of a transaction.
Transfers(tx) ==
    {i \in 1..Len(tx.instructions) :
        tx.instructions[i].program \in {"System.transfer", "Token.transfer"}}

\* A decimal string of a non-negative integer: one digit or more, nothing else.
ValidAmount(s) ==
    /\ s # Undefined
    /\ Len(s) >= 1
    /\ \A i \in 1..Len(s) : IsDigitAt(s, i, 10)

\* The integer a decimal string denotes, with every digit kept.
Exact(s) == [nan |-> FALSE, negative |-> FALSE, bits |-> DigitsValue(s, 1, 10, << >>)]

\* The retry of call c is in flight: transaction[c] and the header of
\* request[c] were built for paymentReq[c].
Retrying(c) == pc[c] = "AwaitingResponse" /\ CarriesPayment(c)

\* The instructions of a transaction that invoke the program.
Invoking(tx, program) ==
    {i \in 1..Len(tx.instructions) : tx.instructions[i].program = program}

\* Everything the interceptor invocation of call c holds.
PerCall(c) ==
    <<pc[c], request[c], response[c], paymentReq[c], transaction[c], toAccountInfo[c],
      outcome[c], receipt[c]>>

\* The responses call c has received: its 402 responses, and the response
\* that settled it, if one did.
Answered(c) ==
    n402[c] + (IF /\ pc[c] = "Done"
                  /\ \/ outcome[c].settled = "resolved"
                     \/ outcome[c].error.name = "AxiosError"
               THEN 1 ELSE 0)

\* The network requests of call c that are issued and not answered.
InFlight(c) == nreq[c] - Answered(c)

----------------------------------------------------------------------------
(* C1 *)

\* C1: one caller request causes at most two network requests, the original
\* and one retry, however often the server answers 402.  The code retries on
\* the client that carries the interceptor (line 116), so a 402 on the retried
\* request starts another construction and another request: it does not hold.
C1_AtMostTwoRequests ==
    \A c \in Calls : nreq[c] <= 2

(* C2 *)

\* C2: every caller request eventually settles, when every pending request,
\* query and import eventually returns (FairSpec).  It does not hold of a
\* server that answers 402 to every request.
C2_EventuallySettles ==
    \A c \in SingleCall : <>(pc[c] = "Done")

(* C3 *)

\* C3: with a wallet whose signTransaction throws, no request that carries
\* an X-Payment header is issued, and a settled call that got a payable 402
\* was rejected with the wallet's error.  In the mode in force the wallet is
\* never asked, so it does not hold.
C3_DeclinedWalletNoRetry ==
    \A c \in Calls :
        walletDeclines =>
            /\ ~CarriesPayment(c)
            /\ (pc[c] = "Done" /\ signCalls[c] > 0 =>
                    outcome[c].error.name = "WalletSignTransactionError")

(* C4 *)

\* C4: a request carries an X-Payment header only after signTransaction was
\* invoked and returned for the artifact in the header, which is then signed.
\* It does not hold: the header carries the unsigned message.
C4_RetryOnlyAfterSigning ==
    \A c \in Calls :
        CarriesPayment(c) => signCalls[c] > 0 /\ HeaderArtifact(c).signed

(* C5 *)

\* C5: when a well-formed 402 body has an entry whose network matches the
\* client's (here, by the client's own test of line 92), the requirement
\* selected is the first such entry and the call is not refused for its
\* network.  It does not hold: the code looks at accepts[0] only.
C5_FirstMatchingSelected ==
    \A c \in Calls :
        (/\ Got402List(c)
         /\ WellFormed(response[c].data)
         /\ \E i \in 1..Len(response[c].data.accepts) : Payable(response[c].data.accepts[i]))
        => /\ paymentReq[c] = FirstMatching(response[c].data.accepts)
           /\ outcome[c].error.name # "UnsupportedNetwork"

(* C6 *)

\* C6: a payment is constructed only for a requirement whose network is the
\* network of the client's connection, and a well-formed 402 body none of whose
\* entries names that network ends the call with an unsupported-network error
\* that names the network it met, before any chain query, signing or retry.
\* It does not hold: line 92 accepts every network whose name contains "solana".
C6_OnlyAdapterNetworkPaid ==
    \A c \in Calls :
        /\ InConstruction(c) => Matches(paymentReq[c])
        /\ (/\ Got402List(c)
            /\ WellFormed(response[c].data)
            /\ Len(response[c].data.accepts) >= 1
            /\ \A i \in 1..Len(response[c].data.accepts) :
                  ~Matches(response[c].data.accepts[i]))
           => /\ pc[c] = "Done"
              /\ outcome[c].error.name = "UnsupportedNetwork"
              /\ outcome[c].error.network = response[c].data.accepts[1].network

(* C7 *)

\* A 402 body that is not a list of complete requirements, or an empty one.
Malformed(data) == ~WellFormed(data) \/ Len(data.accepts) = 0

\* C7: a 402 response whose body is malformed, or whose accepts list is
\* missing or empty, ends the call with an error of the selection step, with
\* createSolanaPaymentHeader never entered for it.  It does not hold: lines
\* 86-98 look at the presence and the network of accepts[0] only.
C7_MalformedBodyRejectedUnpaid ==
    \A c \in Calls :
        response[c].status = 402 /\ Malformed(response[c].data)
        => /\ pc[c] = "Done"
           /\ outcome[c].settled = "rejected"
           /\ outcome[c].error.name \in ProtocolErrors

(* C8 *)

\* The caller got response[c] as the client received it.
DeliveredUnchanged(c) ==
    IF response[c].status \in SuccessStatuses
    THEN /\ outcome[c].settled = "resolved"
         /\ outcome[c].value = response[c]
    ELSE /\ outcome[c].settled = "rejected"
         /\ outcome[c].error.name = "AxiosError"
         /\ outcome[c].error.response = response[c]

\* C8: a call whose response is not a 402 settles with that response
\* unchanged; when it is the response to the original request, the call has
\* issued exactly one request, with no payment construction, no chain query,
\* no signing and no header added.
C8_NonPaymentResponsePassedThrough ==
    \A c \in Calls :
        /\ (pc[c] = "Done" /\ response[c].status # 402) => DeliveredUnchanged(c)
        /\ (pc[c] = "Done" /\ n402[c] = 0)
           => /\ response[c].status # 402
              /\ nreq[c] = 1
              /\ constructions[c] = 0
              /\ chainQueries[c] = 0
              /\ signCalls[c] = 0
              /\ request[c] \in OriginalRequests

\* A call settled on a first response that is an error other than 402.
C8_Witness ==
    \E c \in Calls :
        /\ pc[c] = "Done"
        /\ n402[c] = 0
        /\ response[c].status = 500
        /\ outcome[c].settled = "rejected"

(* C9 *)

\* Call c settles in this step out of a payment construction.
ConstructionEnds(c) ==
    /\ pc'[c] = "Done"
    /\ \/ InConstruction(c)
       \/ pc[c] = "AwaitingResponse" /\ outcome'[c].error.name \in ConstructionErrors

\* C9: when a step of payment construction fails, the call is rejected with
\* the error of that step, no request is issued and the request config is
\* left as it was; a settled call takes no further step.
C9_ConstructionFailureAborts ==
    [][\A c \in Calls :
          /\ ConstructionEnds(c)
             => /\ outcome'[c].settled = "rejected"
                /\ outcome'[c].error.name \in ConstructionErrors
                /\ nreq'[c] = nreq[c]
                /\ request'[c] = request[c]
                /\ constructions'[c] >= constructions[c]
          /\ pc[c] = "Done"
             => /\ pc'[c] = "Done"
                /\ outcome'[c] = outcome[c]
                /\ nreq'[c] = nreq[c]
                /\ constructions'[c] = constructions[c]
                /\ chainQueries'[c] = chainQueries[c]]_vars

\* A call rejected by a chain query that failed during its only construction.
C9_Witness ==
    \E c \in Calls :
        /\ pc[c] = "Done"
        /\ outcome[c].settled = "rejected"
        /\ outcome[c].error.name = "RpcError"
        /\ constructions[c] = 1
        /\ nreq[c] = 1

(* C10 *)

\* C10: a call rejected after a 402, by the selection step or by payment
\* construction, is rejected with an error from which the 402 response can
\* be recovered.  It does not hold: lines 88, 95-97 and 126 reject with a
\* new Error, or with the thrown error itself, neither of which carries it.
C10_RejectionCarries402 ==
    \A c \in Calls :
        (/\ pc[c] = "Done"
         /\ outcome[c].settled = "rejected"
         /\ outcome[c].error.name \in
                ProtocolErrors \cup {"UnsupportedNetwork"} \cup ConstructionErrors)
        => /\ response[c].status = 402
           /\ outcome[c].error.response = response[c]

(* C11 *)

\* C11: for a selected requirement whose maxAmountRequired is not a decimal
\* string of a non-negative integer, no transfer instruction is built and no
\* request carries a payment, and a construction that got as far as the amount
\* ends rejected.  It does not hold: parseInt (line 148) reads the leading
\* digits and ignores what follows them, so "12abc" pays 12.
C11_InvalidAmountRejected ==
    \A c \in Calls :
        (paymentReq[c] # NoRequirement /\ ~ValidAmount(paymentReq[c].maxAmountRequired))
        => /\ Transfers(transaction[c]) = {}
           /\ ~CarriesPayment(c)
           /\ (pc[c] = "Done" /\ constructions[c] > 0 => outcome[c].settled = "rejected")

(* C12 *)

\* C12: the transaction built for a native requirement whose amount is the
\* decimal string A holds exactly one instruction, a transfer to payTo of
\* exactly the integer A denotes.  It does not hold: the amount goes through
\* a Number (line 148), which keeps 53 binary digits, so 2^53 + 1 pays 2^53.
C12_NativeTransferExact ==
    \A c \in Calls :
        (/\ Retrying(c)
         /\ IsNative(paymentReq[c].asset)
         /\ ValidAmount(paymentReq[c].maxAmountRequired))
        => /\ Len(transaction[c].instructions) = 1
           /\ transaction[c].instructions[1].program = "System.transfer"
           /\ transaction[c].instructions[1].destination = paymentReq[c].payTo
           /\ transaction[c].instructions[1].amount = Exact(paymentReq[c].maxAmountRequired)

(* C13 *)

\* C13: the transaction built for a requirement is of the kind its asset
\* says.  With no asset, an empty one or "SOL" it holds one native transfer
\* and no token instruction; with any other asset it holds no native
\* transfer and one token transfer between the associated accounts of that
\* asset as the mint, and any account it creates is of that mint.
C13_KindByAsset ==
    \A c \in Calls :
        Retrying(c) =>
            LET req == paymentReq[c]
                tx == transaction[c]
            IN  IF req.asset \in {Undefined, "", "SOL"}
                THEN /\ Cardinality(Invoking(tx, "System.transfer")) = 1
                     /\ Invoking(tx, "Token.transfer") = {}
                     /\ Invoking(tx, "AssociatedToken.create") = {}
                ELSE /\ Invoking(tx, "System.transfer") = {}
                     /\ Cardinality(Invoking(tx, "Token.transfer")) = 1
                     /\ \A i \in Invoking(tx, "Token.transfer") :
                           /\ tx.instructions[i].source =
                                  getAssociatedTokenAddress(req.asset, SignerKey)
                           /\ tx.instructions[i].destination =
                                  getAssociatedTokenAddress(req.asset, req.payTo)
                     /\ \A i \in Invoking(tx, "AssociatedToken.create") :
                           tx.instructions[i].mint = req.asset

\* A retry in flight that pays a token requirement with a token transfer.
C13_Witness ==
    \E c \in Calls :
        /\ Retrying(c)
        /\ paymentReq[c].asset = "MINT"
        /\ Invoking(transaction[c], "Token.transfer") # {}

(* C14 *)

\* C14: when getAccountInfo finds no associated account of the recipient
\* (and the amount is a number), the construction goes on to the retry, and
\* the transaction of the retry holds two instructions: the creation of that
\* account for the recipient and the mint, then the token transfer into it.
C14_MissingAccountCreated ==
    [][\A c \in Calls :
          (/\ pc[c] = "getAccountInfo"
           /\ toAccountInfo'[c] = "missing"
           /\ ~amountOf[paymentReq[c].maxAmountRequired].nan)
          => LET req == paymentReq[c]
                 ixs == transaction'[c].instructions
                 toTokenAccount == getAssociatedTokenAddress(req.asset, req.payTo)
             IN  /\ pc'[c] = "AwaitingResponse"
                 /\ outcome'[c] = Pending
                 /\ Len(ixs) = 2
                 /\ ixs[1].program = "AssociatedToken.create"
                 /\ ixs[1].destination = toTokenAccount
                 /\ ixs[1].owner = req.payTo
                 /\ ixs[1].mint = req.asset
                 /\ ixs[2].program = "Token.transfer"
                 /\ ixs[2].destination = toTokenAccount
                 /\ HeaderArtifact(c)'.instructions = ixs]_vars

\* A retry in flight whose construction found the recipient's account missing.
C14_Witness ==
    \E c \in Calls :
        /\ Retrying(c)
        /\ toAccountInfo[c] = "missing"
        /\ Len(transaction[c].instructions) = 2

(* C15 *)

\* C15: the X-Payment header of every retry decodes, as base64 and then as
\* JSON, to an object with exactly the members x402Version, scheme, network
\* and payload, payload having exactly the member transaction, a base64
\* text, and scheme and network being those of the selected requirement.
\* It does not hold of a requirement with no scheme: JSON.stringify (line
\* 391) leaves the undefined member out.
C15_EnvelopeShape ==
    \A c \in Calls :
        Retrying(c) =>
            LET text == atob(request[c].headers.XPayment)
                envelope == JSONparse(text.value)
            IN  /\ ~text.thrown
                /\ ~envelope.thrown
                /\ DOMAIN envelope.value = {"x402Version", "scheme", "network", "payload"}
                /\ envelope.value.scheme = paymentReq[c].scheme
                /\ envelope.value.network = paymentReq[c].network
                /\ DOMAIN envelope.value.payload = {"transaction"}
                /\ ~atob(envelope.value.payload.transaction).thrown

(* C16 *)

\* C16: for a requirement with a scheme and an amount that is a decimal
\* string, decoding the X-Payment header of the retry as base64 and JSON gives
\* an envelope whose scheme and network are the requirement's and whose
\* transaction, decoded in turn, transfers exactly the requirement's amount.
\* Scheme and network come back unchanged; the amount does not when it is
\* above 2^53, as in C12.
C16_RoundTrip ==
    \A c \in Calls :
        (/\ Retrying(c)
         /\ paymentReq[c].scheme # Undefined
         /\ ValidAmount(paymentReq[c].maxAmountRequired))
        => LET envelope == JSONparse(atob(request[c].headers.XPayment).value).value
               message == atob(envelope.payload.transaction).value
           IN  /\ envelope.scheme = paymentReq[c].scheme
               /\ envelope.network = paymentReq[c].network
               /\ {message.instructions[i].amount : i \in Transfers(message)}
                      = {Exact(paymentReq[c].maxAmountRequired)}

(* C17 *)

\* C17: the only change ever made to the request of a call is the one of the
\* retry: method, URL and body stay as they are, and the X-Payment header
\* becomes the header built, in the mode in force, from the requirement
\* selected from the 402 response the call last received and the transaction
\* built for it; a header is present.  The request is issued again in that
\* very step.
C17_RetryIsOriginalWithHeader ==
    [][\A c \in Calls :
          request'[c] # request[c]
          => /\ request'[c].method = request[c].method
             /\ request'[c].url = request[c].url
             /\ request'[c].data = request[c].data
             /\ request'[c].headers.XPayment # NoHeader
             /\ response[c].status = 402
             /\ paymentReq[c] = FirstAccepts(response[c].data)
             /\ request'[c].headers.XPayment =
                    PaymentHeader(paymentReq[c],
                                  Base64Transaction(EXPERIMENTAL_MODE, transaction'[c]))
             /\ pc'[c] = "AwaitingResponse"
             /\ nreq'[c] = Inc(nreq[c])]_vars

\* A retry in flight of a request that has a body.
C17_Witness ==
    \E c \in Calls :
        /\ Retrying(c)
        /\ request[c].method = "POST"
        /\ request[c].data # Undefined
        /\ nreq[c] = 2

(* C18 *)

\* C18: every construction asks the chain, and the transaction it creates on
\* the reply is a new one that carries the blockhash that is the chain's
\* latest at the reply, whatever the call built before; the instructions
\* added later keep that blockhash, and the header of the retry carries the
\* transaction of this construction.
C18_FreshBlockhash ==
    [][\A c \in Calls :
          /\ pc'[c] = "getLatestBlockhash" /\ pc[c] # "getLatestBlockhash"
             => chainQueries'[c] = Inc(chainQueries[c])
          /\ pc[c] = "getLatestBlockhash" /\ pc'[c] \in {"import", "getSPLToken"}
             => transaction'[c] = Transaction(SignerKey, latestBlockhash)
          /\ pc[c] = "getLatestBlockhash" /\ pc'[c] = "AwaitingResponse"
             => /\ transaction'[c].recentBlockhash = latestBlockhash
                /\ Len(transaction'[c].instructions) = 1
          /\ pc[c] = "getAccountInfo" /\ pc'[c] = "AwaitingResponse"
             => transaction'[c].recentBlockhash = transaction[c].recentBlockhash
          /\ InConstruction(c) /\ pc'[c] = "AwaitingResponse"
             => /\ HeaderArtifact(c)'.recentBlockhash = transaction'[c].recentBlockhash
                /\ HeaderArtifact(c)'.instructions = transaction'[c].instructions]_vars

\* The retry of a second construction in flight, built on a block that the
\* chain produced after the call was set up.
C18_Witness ==
    \E c \in Calls :
        /\ Retrying(c)
        /\ constructions[c] = 2
        /\ transaction[c].recentBlockhash = "bh2"

(* C19 *)

\* C19: decodeSolanaPaymentResponse does not throw: of a header that is the
\* base64 text of the JSON text of a receipt it returns that receipt, and of
\* any other header, an absent one included, it returns null.  And a call
\* whose retried request was answered 2xx resolved with that response as it
\* was received, whatever its x-payment-response header, decoded or not.
C19_ReceiptDecodingNeverFails ==
    \A c \in Calls :
        /\ receipt[c] # NotDecoded
           => /\ ~receipt[c].thrown
              /\ receipt[c].value =
                    IF outcome[c].value.headers.xPaymentResponse = btoa(JSONstringify(Receipt))
                    THEN Receipt
                    ELSE Null
        /\ (pc[c] = "Done" /\ response[c].status \in SuccessStatuses)
           => /\ outcome[c].settled = "resolved"
              /\ outcome[c].value = response[c]
              /\ outcome[c].value.headers.xPaymentResponse \in ReceiptHeaders

\* A paid call that resolved with a response whose receipt header is no
\* base64 text, which the caller decoded to null.
C19_Witness ==
    \E c \in Calls :
        /\ pc[c] = "Done"
        /\ nreq[c] = 2
        /\ CarriesPayment(c)
        /\ outcome[c].settled = "resolved"
        /\ outcome[c].value.headers.xPaymentResponse = NotBase64
        /\ receipt[c] = Returned(Null)

(* C20 *)

\* C20: with two caller requests in progress on one client (ConcurrentSpec),
\* a step of one call changes nothing that the other call holds; the retry of
\* each call carries the header built from the requirement of the 402
\* response that call received and from the transaction that call built; and
\* a call in its first construction that consults the module-level cache of
\* the token library (line 25) finds it as it was when the client was
\* created, empty.  The last does not hold: the cache is written by the call
\* that imports first (line 26) and read by the other.
C20_ConcurrentCallsIndependent ==
    [][/\ \A c, d \in Calls :
             c # d /\ PerCall(c)' # PerCall(c) => PerCall(d)' = PerCall(d)
       /\ \A c \in Calls :
             Retrying(c)'
             => /\ paymentReq'[c] = FirstAccepts(response'[c].data)
                /\ request'[c].headers.XPayment =
                       PaymentHeader(paymentReq'[c],
                                     Base64Transaction(EXPERIMENTAL_MODE, transaction'[c]))
       /\ \A c \in Calls :
             (/\ pc[c] = "getLatestBlockhash"
              /\ constructions[c] = 1
              /\ pc'[c] \in {"import", "getSPLToken"})
             => ~splTokenModule]_vars

(* C21 *)

\* C21: of one caller request at most one network request is unanswered at
\* any time, and exactly one while the call awaits a response; a request
\* after the first is issued only by a step that completes a payment
\* construction entered on a 402 response, with the call still pending; and
\* once the call has settled the interceptor does nothing more for it.
C21_StrictlySequential ==
    [][\A c \in Calls :
          /\ InFlight(c)' <= 1
          /\ (pc'[c] = "AwaitingResponse" /\ nreq'[c] < MaxReq) => InFlight(c)' = 1
          /\ (nreq'[c] # nreq[c] /\ nreq[c] >= 1)
             => /\ InConstruction(c)
                /\ response[c].status = 402
                /\ outcome'[c] = Pending
                /\ Transfers(transaction'[c]) # {}
                /\ CarriesPayment(c)'
          /\ pc[c] = "Done"
             => <<pc[c], request[c], response[c], paymentReq[c], transaction[c],
                  outcome[c], nreq[c], n402[c], constructions[c], chainQueries[c]>>'
                = <<pc[c], request[c], response[c], paymentReq[c], transaction[c],
                    outcome[c], nreq[c], n402[c], constructions[c], chainQueries[c]>>]_vars

\* A retry in flight: the second request of the call, the first one answered.
C21_Witness ==
    \E c \in Calls :
        /\ Retrying(c)
        /\ nreq[c] = 2
        /\ n402[c] = 1
        /\ InFlight(c) = 1

(* C22 *)

\* C22: a payment construction that is still going on when more seconds
\* have passed since the 402 response than the requirement's
\* maxTimeoutSeconds issues no request; if it ends, it ends the call rejected
\* with a requirement-expired error.  It does not hold: the interceptor
\* reads neither the clock nor maxTimeoutSeconds.
C22_ExpiredRequirementNotPaid ==
    [][\A c \in Calls :
          (/\ InConstruction(c)
           /\ elapsed[c] > paymentReq[c].maxTimeoutSeconds
           /\ pc'[c] # pc[c])
          => /\ nreq'[c] = nreq[c]
             /\ \/ InConstruction(c)'
                \/ /\ pc'[c] = "Done"
                   /\ outcome'[c].settled = "rejected"
                   /\ outcome'[c].error.name = "RequirementExpired"]_vars

----------------------------------------------------------------------------
(* Vocabulary of the claims about the Welcome component *)

\* The members of a permit that POST /execute-permit submits, lines 278-284.
SubmittedMembers == {"owner", "spender", "value", "deadline", "v", "r", "s"}

\* The permitTxHash of sig is that of a transaction the backend sent for a
\* request that submitted the members of sig.
HashIsOf(sig) ==
    \A m \in SubmittedMembers :
        m \in DOMAIN sig /\ sig.permitTxHash.transaction[m] = sig[m]

\* sig is a signature as executePermitSignature sets it.
Complete(sig) == PanelMembers \subseteq DOMAIN sig

(* C23 *)

\* C23: whenever permitSignature carries a permitTxHash, the hash was
\* returned by a POST /execute-permit that submitted that signature's owner,
\* spender, value, deadline, v, r and s.  It does not hold: line 291 adds
\* the hash to whatever permitSignature is when the response arrives.
C23_TxHashOfOwnPermit ==
    HasTxHash(permitSignature) => HashIsOf(permitSignature)

(* C24 *)

\* C24: a permitSignature that is not null has all of owner, spender, value,
\* nonce, deadline, signature, r, s and v.  It does not hold: when the
\* response of POST /execute-permit arrives after permitSignature was set to
\* null, line 291 makes of it an object with permitTxHash and message only.
C24_SignatureComplete ==
    permitSignature # Null => Complete(permitSignature)

(* C25 *)

\* Step 4 has succeeded for sig: sig is a signature as step 3 sets it, and
\* the hash it carries is that of a permit executed with its members.
PermitExecuted(sig) == Complete(sig) /\ HasTxHash(sig) /\ HashIsOf(sig)

\* C25: POST /transfer-from is issued only for a permitSignature that was
\* signed (step 3) and for which a POST /execute-permit has succeeded
\* (step 4).  It does not hold: the transfer button is shown for whatever
\* signature carries a hash, and through C23 that can be a signature that
\* was never submitted.
C25_TransferAfterPermit ==
    [][(executeTransferFrom /\ client # Null) => PermitExecuted(permitSignature)]_vars

(* C26 *)

\* A step starts a fetchBackendBalance that asks for the balances of address.
StartsBalanceFetch(address) ==
    \E t \in BagToSet(tasks') :
        /\ t.handler = "fetchBackendBalance"
        /\ t.at = "eth_getBalance"
        /\ t.closure.account = address
        /\ CopiesIn(t, tasks') > CopiesIn(t, tasks)

\* A step in which the timeout timer fires.
Fires(timer) == Timeout /\ timers' = timers (-) SetToBag({timer})

\* C26: when the timeout that connectAndInit set after connecting fires, with
\* the wallet still connected and MetaMask there, a balance fetch for the
\* connected address starts.  It does not hold: the callback calls the
\* fetchBackendBalance of the render in which connectAndInit was created,
\* where account is still null, and that returns at line 211.
C26_BalanceFetchedAfterConnect ==
    [][\A timer \in BagToSet(timers) :
          (/\ Fires(timer)
           /\ timer.origin = "connectAndInit"
           /\ account # NullString
           /\ ethereum)
          => StartsBalanceFetch(account)]_vars

(* C27 *)

\* A step starts a fetchBackendBalance that asks the USDC contract of the
\* network with key selected.
StartsBalanceFetchOn(selected) ==
    \E t \in BagToSet(tasks') :
        /\ t.handler = "fetchBackendBalance"
        /\ t.at = "eth_getBalance"
        /\ UsdcQueried(t) = NETWORKS[selected].usdcAddress
        /\ CopiesIn(t, tasks') > CopiesIn(t, tasks)

\* C27: when the timeout that the network selector set fires, with the
\* network it switched to still selected and MetaMask there, the balance
\* fetch that starts asks the USDC contract of the selected network.  It
\* does not hold: the callback calls the fetchBackendBalance of the render
\* before the switch, whose network is the one switched away from.
C27_RefreshOnSelectedNetwork ==
    [][\A timer \in BagToSet(timers) :
          (/\ Fires(timer)
           /\ timer.origin = "onChange"
           /\ timer.closure.selectedNetwork # selectedNetwork
           /\ ethereum)
          => StartsBalanceFetchOn(selectedNetwork)]_vars

(* C28 *)

\* The handlers that set loading, lines 140, 178, 270, 310, 496.
LoadingHandlers ==
    {"connectAndInit", "fetchWeatherData", "executePermit", "exportPrivateKey",
     "executeTransferFrom"}

\* The invocations of these handlers that are suspended at an await.
LoadingTasks == {t \in BagToSet(tasks) : t.handler \in LoadingHandlers}

\* C28: at most one invocation of connectAndInit, fetchWeatherData,
\* executePermit, exportPrivateKey and executeTransferFrom is in flight, and
\* loading is TRUE exactly while one is; so it is FALSE once each has ended,
\* with a result or with an error.
C28_LoadingGuardsOneRequest ==
    /\ \A t \in LoadingTasks : CopiesIn(t, tasks) = 1
    /\ \A t, u \in LoadingTasks : t = u
    /\ loading <=> LoadingTasks # {}

\* executeTransferFrom is in flight while a MetaMask handler is in flight too.
C28_Witness ==
    /\ loading
    /\ \E t \in LoadingTasks : t.handler = "executeTransferFrom"
    /\ metamaskLoading
    /\ BagCardinality(tasks) = 2

(* C29 *)

\* C29: whenever a signature is held and a backend wallet is connected, the
\* spender of the signature is the connected backend account.  This does not
\* hold: disconnect (lines 163-169) leaves permitSignature as it is, and
\* executePermitSignature stores the account of the render it was started in.
C29_SpenderIsConnectedAccount ==
    (permitSignature # Null /\ account # NullString) =>
        /\ "spender" \in DOMAIN permitSignature
        /\ permitSignature.spender = account

(* C30 *)

\* A connectMetaMask that has not yet finished its network check.
CheckingNetwork ==
    \E t \in BagToSet(tasks) :
        /\ t.handler = "connectMetaMask"
        /\ t.at \in {"eth_chainId", "wallet_switchEthereumChain",
                     "wallet_addEthereumChain"}

\* C30: MetaMask is shown as connected only once the wallet was found on, or
\* was switched to, the selected network; when the switch fails and the error
\* is set, metamaskAccount stays null.  This does not hold: line 338 sets the
\* account before the check of line 341.
C30_ConnectedOnlyOnSelectedNetwork ==
    /\ metamaskAccount # NullString => ~CheckingNetwork
    /\ metamaskError = CannotSwitch => metamaskAccount = NullString

-----------------------------------------------------------------------------
(* The MetaMask variant of the component, src/unnamed/part_000 lines 214-401:
   X402MetaMaskClient and the connectAndInit that initializes it.  It has the
   state variables client, account, loading, error, weatherData and
   paymentInfo of the component above, and its disconnect (lines 314-320) is
   the same code. *)

\* The chain of viem's `base` and of switchToBaseNetwork, lines 218, 266, 272.
Base == "0x2105"

\* What getAddresses of line 249 returns first: the accounts the wallet exposes.
WalletAccounts == {"0xM1", "0xM2"}

NoMetaMask == "install the MetaMask wallet"
NoAccounts == "no connected account found"

\* Messages of the errors the wallet answers a request with.
AlreadyPending == "Request of type 'wallet_addEthereumChain' already pending"

\* An initialized X402MetaMaskClient, lines 225-234: the wallet client of
\* lines 255-259 is created for the chain `base` whatever chain the wallet is
\* on, and httpClient is the axios instance with the payment interceptor.
X402MetaMaskClient(address) ==
    [address |-> address,
     walletClient |-> [account |-> address, chain |-> Base],
     httpClient |-> TRUE]

\* The position at which connectAndInit is suspended.
Initializing(at) == Task("connectAndInit", at, Closure({}), NoLocals)

\* catch and finally of connectAndInit, lines 307-311.
InitializeFails(t, message) ==
    /\ error' = message
    /\ loading' = FALSE
    /\ Return(t)
    /\ UNCHANGED <<client, account, walletChain>>

\* connectAndInit, lines 298-302, initialize, line 226, and
\* createMetaMaskWallet, lines 237-240: up to the await of
\* eth_requestAccounts, or to the await of the promise createMetaMaskWallet
\* rejected because there is no window.ethereum.
X402MetaMaskClient_connectAndInit ==
    /\ mounted /\ ~connectAndInitDisabled /\ TaskRoom
    /\ error' = NullString
    /\ loading' = TRUE
    /\ Await(Initializing(IF ethereum THEN "eth_requestAccounts" ELSE "rejected"))
    /\ Frame({"error", "loading", "tasks"})
    /\ Render

\* createMetaMaskWallet, lines 237-239, rejected.
X402MetaMaskClient_NoEthereum ==
    /\ mounted
    /\ \E t \in Suspended("connectAndInit", "rejected") :
        InitializeFails(t, NoMetaMask)
    /\ Frame({"client", "account", "error", "loading", "tasks", "walletChain"})
    /\ Render

\* createMetaMaskWallet, lines 240-241: the user grants the accounts, and
\* switchToBaseNetwork asks for the switch (lines 264-267); or refuses.
X402MetaMaskClient_ResumeAccounts ==
    /\ mounted
    /\ \E t \in Suspended("connectAndInit", "eth_requestAccounts") :
        \/ /\ Resume(t, Initializing("wallet_switchEthereumChain"))
           /\ UNCHANGED <<client, account, error, loading, walletChain>>
        \/ InitializeFails(t, UserRejected)
    /\ Frame({"client", "account", "error", "loading", "tasks", "walletChain"})
    /\ Render

\* switchToBaseNetwork, lines 263-270: the wallet switches; or it does not
\* know the chain (code 4902) and is asked to add it; or the switch fails
\* with another code, which the catch swallows, and createMetaMaskWallet goes
\* on to getAddresses.  A wallet that is on Base already answers at once.
switchToBaseNetwork ==
    /\ mounted
    /\ \E t \in Suspended("connectAndInit", "wallet_switchEthereumChain") :
        /\ \/ /\ walletChain' = Base
              /\ Resume(t, Initializing("getAddresses"))
           \/ /\ walletChain # Base
              /\ UNCHANGED walletChain
              /\ \E code \in {4902, 4001} :
                    Resume(t, Initializing(IF code = 4902
                                           THEN "wallet_addEthereumChain"
                                           ELSE "getAddresses"))
        /\ UNCHANGED <<client, account, error, loading>>
    /\ Frame({"client", "account", "error", "loading", "tasks", "walletChain"})
    /\ Render

\* switchToBaseNetwork, lines 271-284: the chain is added, and the wallet
\* switches to it or stays where it is; or the request fails, and the error
\* leaves the catch block and initialize.
switchToBaseNetwork_ResumeAdd ==
    /\ mounted
    /\ \E t \in Suspended("connectAndInit", "wallet_addEthereumChain") :
        \/ /\ \E chain \in {Base, walletChain} : walletChain' = chain
           /\ Resume(t, Initializing("getAddresses"))
           /\ UNCHANGED <<client, account, error, loading>>
        \/ \E message \in {UserRejected, AlreadyPending} : InitializeFails(t, message)
    /\ Frame({"client", "account", "error", "loading", "tasks", "walletChain"})
    /\ Render

\* createMetaMaskWallet, lines 249-259, initialize, lines 227-233, and
\* connectAndInit, lines 303-311: the wallet exposes no account; or the
\* client is initialized with the first one and set.
X402MetaMaskClient_ResumeAddresses ==
    /\ mounted
    /\ \E t \in Suspended("connectAndInit", "getAddresses") :
        \/ InitializeFails(t, NoAccounts)
        \/ \E address \in WalletAccounts :
            /\ client' = X402MetaMaskClient(address)
            /\ account' = address
            /\ error' = NullString
            /\ loading' = FALSE
            /\ Return(t)
            /\ UNCHANGED walletChain
    /\ Frame({"client", "account", "error", "loading", "tasks", "walletChain"})
    /\ Render

\* fetchWeatherData, lines 323-331: up to the await of GET /item2.
X402MetaMaskClient_fetchWeatherData ==
    /\ mounted /\ ~fetchWeatherDataDisabled /\ TaskRoom
    /\ loading' = TRUE
    /\ error' = NullString
    /\ paymentInfo' = NullString
    /\ Await(Task("fetchWeatherData", "get", Closure({}), NoLocals))
    /\ Frame({"error", "loading", "paymentInfo", "tasks"})
    /\ Render

\* fetchWeatherData, lines 332-345: the response, with no, a decodable or an
\* undecodable x-payment-response header; or an error.
X402MetaMaskClient_fetchWeatherData_Resume ==
    /\ mounted
    /\ \E t \in Suspended("fetchWeatherData", "get") :
        /\ \/ /\ weatherData' = "item2"
              /\ \E xpr \in {"none", "decodable", "undecodable"} :
                    /\ paymentInfo' = IF xpr = "decodable" THEN "payment" ELSE paymentInfo
                    /\ error' = IF xpr = "undecodable" THEN "not a payment response" ELSE error
           \/ /\ error' = RequestFailed
              /\ UNCHANGED <<weatherData, paymentInfo>>
        /\ loading' = FALSE
        /\ Return(t)
    /\ Frame({"weatherData", "paymentInfo", "error", "loading", "tasks"})
    /\ Render

MetaMaskNext ==
    \/ X402MetaMaskClient_fetchWeatherData
    \/ X402MetaMaskClient_fetchWeatherData_Resume
    \/ X402MetaMaskClient_connectAndInit
    \/ X402MetaMaskClient_NoEthereum
    \/ X402MetaMaskClient_ResumeAccounts
    \/ switchToBaseNetwork
    \/ switchToBaseNetwork_ResumeAdd
    \/ X402MetaMaskClient_ResumeAddresses
    \/ disconnect

MetaMaskSpec == WelcomeInit /\ [][MetaMaskNext]_vars

(* C31 *)

\* connectAndInit has its initialized client in this step.
Initialized == client = Null /\ client' # Null

\* C31: initialize completes, with the payment interceptor installed, only
\* if the wallet is on Base; once the switch to Base has failed, initialize
\* does not go on to create its wallet client.  This does not hold: the catch
\* of lines 268-285 swallows every error of the switch but 4902.
C31_InitializedOnlyOnBase ==
    [][/\ Initialized => walletChain' = Base
       /\ \A t \in Suspended("connectAndInit", "getAddresses") :
            walletChain = Base]_vars

(* C32 *)

\* C32: the transaction built for a token requirement whose recipient has
\* its associated account holds exactly one instruction, the token transfer
\* of the required amount from the signer's associated account to the
\* recipient's, and creates no account; and the construction for a native
\* requirement looks no token account up.  It does not hold of the amount,
\* which goes through a Number (line 148) as in C12.
C32_ExistingAccountOneTransfer ==
    [][\A c \in Calls :
          LET req == paymentReq[c]
              ixs == transaction'[c].instructions
          IN  /\ (/\ pc[c] = "getAccountInfo"
                  /\ toAccountInfo'[c] = "exists"
                  /\ pc'[c] = "AwaitingResponse"
                  /\ ValidAmount(req.maxAmountRequired))
                 => /\ Len(ixs) = 1
                    /\ ixs[1].program = "Token.transfer"
                    /\ ixs[1].source = getAssociatedTokenAddress(req.asset, SignerKey)
                    /\ ixs[1].destination = getAssociatedTokenAddress(req.asset, req.payTo)
                    /\ ixs[1].amount = Exact(req.maxAmountRequired)
              /\ (pc[c] = "getLatestBlockhash" /\ IsNative(req.asset))
                 => /\ chainQueries'[c] = chainQueries[c]
                    /\ pc'[c] \notin {"import", "getSPLToken", "getAccountInfo"}]_vars

(* C33 *)

\* C33: the retry changes the headers of the request only; it sets X-Payment
\* and Access-Control-Expose-Headers and leaves the header the caller set as
\* it was; and when a retried request is answered 402 and paid for again, its
\* one X-Payment header is the value built by the new construction.
C33_RetryWritesTwoHeaders ==
    [][\A c \in Calls :
          request'[c] # request[c]
          => /\ [request'[c] EXCEPT !.headers = request[c].headers] = request[c]
             /\ DOMAIN request'[c].headers = DOMAIN request[c].headers
             /\ \A name \in DOMAIN request[c].headers
                            \ {"XPayment", "AccessControlExposeHeaders"} :
                    request'[c].headers[name] = request[c].headers[name]
             /\ request'[c].headers.AccessControlExposeHeaders = TRUE
             /\ request'[c].headers.XPayment =
                    PaymentHeader(paymentReq[c],
                                  Base64Transaction(EXPERIMENTAL_MODE, transaction'[c]))]_vars

\* The second retry of a request that carries a header of the caller's, paid
\* for with a transaction on a later block than the chain started with.
C33_Witness ==
    \E c \in Calls :
        /\ Retrying(c)
        /\ nreq[c] = 3
        /\ request[c].headers.Authorization = "Bearer token"
        /\ transaction[c].recentBlockhash = "bh2"

(* C34 *)

\* C34: the fee payer of every transaction built is the signer's key,
\* whatever fee payer the requirement's extra names, and every transfer is
\* from the signer, or from the signer's associated account of the asset
\* with the signer as its owner.
C34_SignerPaysFeeAndTransfer ==
    \A c \in Calls :
        LET req == paymentReq[c]
            tx == transaction[c]
        IN  /\ tx # NoTransaction => tx.feePayer = SignerKey
            /\ Retrying(c) =>
                  \A i \in Transfers(tx) :
                     /\ tx.instructions[i].owner = SignerKey
                     /\ tx.instructions[i].source =
                            IF tx.instructions[i].program = "System.transfer"
                            THEN SignerKey
                            ELSE getAssociatedTokenAddress(req.asset, SignerKey)

\* A retry in flight that pays, with a token transfer, a requirement whose
\* extra names another fee payer.
C34_Witness ==
    \E c \in Calls :
        /\ Retrying(c)
        /\ paymentReq[c].extra.feePayer = "ADDR"
        /\ Invoking(transaction[c], "Token.transfer") # {}

====
